---- MODULE Spec2Model ----
(***************************************************************************)
(* Electron 2: the pipelined emulator core of src/src/electron-2/lib.rs and *)
(* its assembler, src/src/electron-2/parser.rs.                            *)
(*                                                                         *)
(* The state is the Emulator struct.  One action per public method:        *)
(* clock, resolve_input, load_program.  Init is the state Emulator::new    *)
(* returns for a program of the bounded set Programs.  A program is the    *)
(* instruction stream Parser::parse returns for a source text with one     *)
(* well-formed instruction per line (address = index, source_line =        *)
(* index + 1); every operand value used below is one parse_binary accepts  *)
(* (it parses a signed decimal i32, so R8, #-1, %-1 and JMP -5 all parse). *)
(*                                                                         *)
(* A Rust panic (index out of bounds, or an arithmetic overflow in a build *)
(* with overflow checks) ends the process: it is recorded in `panicked`,   *)
(* with the fields as they were when the panic was raised.                 *)
(*                                                                         *)
(* `ticks` is a history variable, not a field of the emulator: the number  *)
(* of clock calls that were not blocked since the program was loaded.  It  *)
(* bounds a run and lets properties speak of "the n-th tick".              *)
(*                                                                         *)
(* SourceSpec is the same machine started from source text: a text is a    *)
(* sequence of one-character strings, and Parser::parse is modelled on     *)
(* it character by character.  `code` is a history variable as well: the   *)
(* text the last Emulator::new or load_program call was given, which the   *)
(* emulator itself does not keep.  Under Spec, where the instruction       *)
(* stream is given directly, code stays empty.                             *)
(***************************************************************************)
EXTENDS Integers, Sequences, FiniteSets, TLC

VARIABLES instructions, pc, sp,
          fetch_reg, decode_reg, execute_reg, writeback_reg,
          regs, next_regs, accumulator, flags,
          ports_out, ram, waiting_for_input, input_register,
          errors, warnings,
          panicked, ticks, code

vars == <<instructions, pc, sp, fetch_reg, decode_reg, execute_reg, writeback_reg,
          regs, next_regs, accumulator, flags, ports_out, ram,
          waiting_for_input, input_register, errors, warnings,
          panicked, ticks, code>>

(***************************************************************************)
(* Machine constants                                                       *)
(***************************************************************************)
NumRegs == 8
NumPorts == 8
RamSize == 16
PcLimit == 255
I32Max == 2147483647
I32Min == (-2147483647) - 1

(***************************************************************************)
(* Bounds of the model                                                     *)
(***************************************************************************)
\* A run is observed for Len(instructions) + MaxDrainTicks unblocked ticks.
MaxDrainTicks == 8

(***************************************************************************)
(* Integer conversions                                                     *)
(***************************************************************************)
\* A cast that keeps the i32 as it is.
as_u8_no_wrap(x) == x

\* `x as u8` for an i32 x: the low eight bits.
AsU8(x) == x % 256

RECURSIVE BitOp(_, _, _, _)
\* Bitwise operation on two naturals, n bits: kind is "and", "or" or "xor".
BitOp(kind, x, y, n) ==
    IF n = 0 THEN 0
    ELSE LET bx == x % 2
             by == y % 2
             bit == CASE kind = "and" -> IF bx = 1 /\ by = 1 THEN 1 ELSE 0
                      [] kind = "or"  -> IF bx = 1 \/ by = 1 THEN 1 ELSE 0
                      [] kind = "xor" -> IF bx # by THEN 1 ELSE 0
         IN bit + 2 * BitOp(kind, x \div 2, y \div 2, n - 1)

\* `val & 0xFF` for an i32 val in two's complement.  For val < 0 the low
\* eight bits are those of val + 2^31 (2^31 is a multiple of 256).
AndFF(val) ==
    IF val >= 0 THEN BitOp("and", val, 255, 8)
    ELSE BitOp("and", (val + I32Max) + 1, 255, 8)

(***************************************************************************)
(* Instructions                                                            *)
(***************************************************************************)
Operand_new(type_, data) == [type_ |-> type_, data |-> data]

Instruction_none ==
    [operation |-> "NOOP", args |-> "None",
     a |-> Operand_new("Immediate", 0), b |-> Operand_new("Immediate", 0),
     address |-> -1, source_line |-> 0]

(***************************************************************************)
(* Register file                                                           *)
(***************************************************************************)
Registers_new == [i \in 0..(NumRegs - 1) |-> 0]

\* read with the upper bound off by one: register 7 reads as 0.
read_loses_r7(rs, addr) == IF addr <= 0 \/ addr > 6 THEN 0 ELSE rs[addr]

read(rs, addr) == IF addr <= 0 \/ addr > 7 THEN 0 ELSE rs[addr]

\* write without the guard that discards register 0.
write_to_zero(nrs, addr, data) ==
    IF addr >= 0 /\ addr < 8 THEN [nrs EXCEPT ![addr] = data] ELSE nrs

write(nrs, addr, data) ==
    IF addr > 0 /\ addr < 8 THEN [nrs EXCEPT ![addr] = data] ELSE nrs

(***************************************************************************)
(* ALU                                                                     *)
(***************************************************************************)
AluFlags_new == [equals |-> FALSE, greater |-> FALSE, less |-> FALSE, overflow |-> FALSE]

\* is_alu_op that counts INP among the arithmetic/logical operations.
is_alu_op_with_inp(op) ==
    op \in {"ADD", "ADDC", "SUB", "OR", "XOR", "AND", "SHR", "NOT", "INP"}

is_alu_op(op) == op \in {"ADD", "ADDC", "SUB", "OR", "XOR", "AND", "SHR", "NOT"}

\* The i32 `result` of the match in ALU::execute.
alu_result(op, a_data, b_data, fl) ==
    CASE op = "ADD"  -> a_data + b_data
      [] op = "ADDC" -> a_data + b_data + (IF fl.overflow THEN 1 ELSE 0)
      [] op = "SUB"  -> a_data - b_data
      [] op = "OR"   -> BitOp("or", a_data, b_data, 8)
      [] op = "XOR"  -> BitOp("xor", a_data, b_data, 8)
      [] op = "AND"  -> BitOp("and", a_data, b_data, 8)
      [] op = "SHR"  -> b_data \div 2
      [] op = "NOT"  -> AndFF(255 - b_data)
      [] OTHER       -> 0

\* ALU::execute taking input A from register A whatever the prefix.
alu_execute_reads_register(m, instr) ==
    LET a_data == read(m.regs, instr.a.data)
        b_data == read(m.regs, instr.b.data)
        op == instr.operation
        result == alu_result(op, a_data, b_data, m.flags)
        m1 == IF op = "INP"
              THEN [m EXCEPT !.waiting_for_input = TRUE,
                             !.input_register = instr.a.data]
              ELSE m
    IN IF is_alu_op(op)
       THEN [m1 EXCEPT !.flags = [equals   |-> a_data = b_data,
                                  greater  |-> a_data > b_data,
                                  less     |-> a_data < b_data,
                                  overflow |-> ~(result >= 0 /\ result <= 255)],
                       !.accumulator = AndFF(result)]
       ELSE m1

\* ALU::execute with equals, greater and less comparing the stored result,
\* in place of the first input, with the second input.
alu_execute_flags_on_result(m, instr) ==
    LET a_data == IF instr.args = "U" \/ instr.args = "X"
                  THEN m.accumulator
                  ELSE read(m.regs, instr.a.data)
        b_data == read(m.regs, instr.b.data)
        op == instr.operation
        result == alu_result(op, a_data, b_data, m.flags)
        m1 == IF op = "INP"
              THEN [m EXCEPT !.waiting_for_input = TRUE,
                             !.input_register = instr.a.data]
              ELSE m
    IN IF is_alu_op(op)
       THEN [m1 EXCEPT !.flags = [equals   |-> AndFF(result) = b_data,
                                  greater  |-> AndFF(result) > b_data,
                                  less     |-> AndFF(result) < b_data,
                                  overflow |-> ~(result >= 0 /\ result <= 255)],
                       !.accumulator = AndFF(result)]
       ELSE m1

\* ALU::execute with `greater` set by a_data >= b_data.
alu_execute_greater_or_equal(m, instr) ==
    LET a_data == IF instr.args = "U" \/ instr.args = "X"
                  THEN m.accumulator
                  ELSE read(m.regs, instr.a.data)
        b_data == read(m.regs, instr.b.data)
        op == instr.operation
        result == alu_result(op, a_data, b_data, m.flags)
        m1 == IF op = "INP"
              THEN [m EXCEPT !.waiting_for_input = TRUE,
                             !.input_register = instr.a.data]
              ELSE m
    IN IF is_alu_op(op)
       THEN [m1 EXCEPT !.flags = [equals   |-> a_data = b_data,
                                  greater  |-> a_data >= b_data,
                                  less     |-> a_data < b_data,
                                  overflow |-> ~(result >= 0 /\ result <= 255)],
                       !.accumulator = AndFF(result)]
       ELSE m1

\* ALU::execute on the machine record m (the emulator's fields).
alu_execute(m, instr) ==
    LET a_data == IF instr.args = "U" \/ instr.args = "X"
                  THEN m.accumulator
                  ELSE read(m.regs, instr.a.data)
        b_data == read(m.regs, instr.b.data)
        op == instr.operation
        result == alu_result(op, a_data, b_data, m.flags)
        m1 == IF op = "INP"
              THEN [m EXCEPT !.waiting_for_input = TRUE,
                             !.input_register = instr.a.data]
              ELSE m
    IN IF is_alu_op(op)
       THEN [m1 EXCEPT !.flags = [equals   |-> a_data = b_data,
                                  greater  |-> a_data > b_data,
                                  less     |-> a_data < b_data,
                                  overflow |-> ~(result >= 0 /\ result <= 255)],
                       !.accumulator = AndFF(result)]
       ELSE m1

(***************************************************************************)
(* Emulator: the machine record and the pipeline stages                    *)
(***************************************************************************)
\* The emulator's mutable fields as one record, threaded through the stages
\* of one clock call in the order the code runs them.
Machine ==
    [pc |-> pc, sp |-> sp,
     fetch_reg |-> fetch_reg, decode_reg |-> decode_reg,
     execute_reg |-> execute_reg, writeback_reg |-> writeback_reg,
     regs |-> regs, next_regs |-> next_regs,
     accumulator |-> accumulator, flags |-> flags,
     ports_out |-> ports_out, ram |-> ram,
     waiting_for_input |-> waiting_for_input, input_register |-> input_register,
     panicked |-> panicked]

begin_cycle(m) == [m EXCEPT !.next_regs = m.regs]

\* end_cycle that forgets to commit the staged writes.
end_cycle_no_commit(m) == m

\* end_cycle that commits every staged write but the one to register 1.
end_cycle_skips_r1(m) == [m EXCEPT !.regs = [m.next_regs EXCEPT ![1] = m.regs[1]]]

end_cycle(m) == [m EXCEPT !.regs = m.next_regs]

\* self.pc += 1 overflows for pc = i32::MAX: a panic where overflow checks are
\* compiled in (debug profile), a two's-complement wrap otherwise (release).
\* The result is the set of outcomes a build can produce.
increment_pc(m) ==
    IF m.pc = I32Max
    THEN {[m EXCEPT !.panicked = TRUE], [m EXCEPT !.pc = I32Min]}
    ELSE {[m EXCEPT !.pc = IF m.pc + 1 >= PcLimit THEN 0 ELSE m.pc + 1]}

fetch_stage(m, instrs) ==
    IF m.pc >= 0 /\ m.pc < Len(instrs)
    THEN [m EXCEPT !.fetch_reg = instrs[m.pc + 1]]
    ELSE [m EXCEPT !.fetch_reg = Instruction_none]

\* decode_stage that leaves the decode latch as it is.
decode_stage_keeps_latch(m) == m

decode_stage(m) == [m EXCEPT !.decode_reg = m.fetch_reg]

\* take_branch with BIE testing the greater flag and BIG the equals flag.
take_branch_swapped(op, fl) ==
    \/ op = "JMP"
    \/ op = "CALL"
    \/ op = "BIE" /\ fl.greater
    \/ op = "BIG" /\ fl.equals
    \/ op = "BIO" /\ fl.overflow
    \/ op = "BIL" /\ fl.less

\* The branch decision of execute_stage for every operation but RET.
take_branch(op, fl) ==
    \/ op = "JMP"
    \/ op = "CALL"
    \/ op = "BIE" /\ fl.equals
    \/ op = "BIG" /\ fl.greater
    \/ op = "BIO" /\ fl.overflow
    \/ op = "BIL" /\ fl.less

\* sp_dec without the wrap at 0.
sp_dec_no_wrap(s) == s - 1

\* The stack-pointer step of PUSH and CALL: decrement, wrapping below 0.
sp_dec(s) == IF s - 1 < 0 THEN 15 ELSE s - 1

\* sp_inc wrapping one step late: 15 goes to 16.
sp_inc_late_wrap(s) == IF s + 1 > 16 THEN 0 ELSE s + 1

\* The stack-pointer step of POP and RET: increment, wrapping above 15.
sp_inc(s) == IF s + 1 > 15 THEN 0 ELSE s + 1

\* execute_stage with a taken branch that sets pc and leaves the fetch latch.
execute_stage_no_flush(m) ==
    LET m1 == [m EXCEPT !.execute_reg = m.decode_reg]
        op == m1.execute_reg.operation
        m2 == IF op = "RET"
              THEN [m1 EXCEPT !.sp = sp_inc(m1.sp),
                              !.execute_reg.a.data = m1.ram[sp_inc(m1.sp)]]
              ELSE m1
        m3 == IF take_branch(op, m1.flags) \/ op = "RET"
              THEN [m2 EXCEPT !.pc = m2.execute_reg.a.data]
              ELSE m2
    IN alu_execute(m3, m3.execute_reg)

execute_stage(m) ==
    LET m1 == [m EXCEPT !.execute_reg = m.decode_reg]
        op == m1.execute_reg.operation
        m2 == IF op = "RET"
              THEN [m1 EXCEPT !.sp = sp_inc(m1.sp),
                              !.execute_reg.a.data = m1.ram[sp_inc(m1.sp)]]
              ELSE m1
        m3 == IF take_branch(op, m1.flags) \/ op = "RET"
              THEN [m2 EXCEPT !.pc = m2.execute_reg.a.data,
                              !.fetch_reg = Instruction_none]
              ELSE m2
    IN alu_execute(m3, m3.execute_reg)

\* PUSH decrementing before it writes: the slot below the current sp.
push_slot_predecrement(s) == sp_dec(s)

\* The RAM slot PUSH writes: the current sp (write first, decrement after).
push_slot(s) == s

\* The CALL's own address stored as the return address.
ret_addr_of_call(address) == AsU8(address)

\* The return address CALL stores: (address + 1) as u8.
ret_addr(address) == AsU8(address + 1)

\* The port store landing on the port after the one addressed.
store_port_shifted(ports, p, val) == [ports EXCEPT ![(p + 1) % 8] = val]

\* `self.ports_out[p as usize] = val` for an index p inside the array.
store_port(ports, p, val) == [ports EXCEPT ![p] = val]

\* `array[i as usize]` panics for an i32 i that is negative (it converts to a
\* huge usize) or not below the array's length.
index_panics(i, len) == i < 0 \/ i >= len

write_back_stage(m) ==
    LET m1 == [m EXCEPT !.writeback_reg = m.execute_reg]
        op == m1.writeback_reg.operation
        a == m1.writeback_reg.a.data
        b == m1.writeback_reg.b.data
        address == m1.writeback_reg.address
        args == m1.writeback_reg.args
        panic == [m1 EXCEPT !.panicked = TRUE]
    IN CASE op = "IMM" ->
              [m1 EXCEPT !.next_regs = write(m1.next_regs, a, AsU8(b))]
         [] op = "MOV" ->
              [m1 EXCEPT !.next_regs = write(m1.next_regs, a, read(m1.regs, b))]
         [] op \in {"ADD", "ADDC", "SUB", "OR", "XOR", "AND"} ->
              IF args = "S" \/ args = "U" \/ args = "None"
              THEN [m1 EXCEPT !.next_regs = write(m1.next_regs, a, m1.accumulator)]
              ELSE m1
         [] op \in {"SHR", "NOT"} ->
              [m1 EXCEPT !.next_regs = write(m1.next_regs, a, m1.accumulator)]
         [] op = "INP" ->
              [m1 EXCEPT !.next_regs = write(m1.next_regs, a, m1.accumulator)]
         [] op = "OUT" ->
              IF a < 8
              THEN IF index_panics(a, NumPorts) THEN panic
                   ELSE [m1 EXCEPT !.ports_out = store_port(m1.ports_out, a, read(m1.regs, b))]
              ELSE m1
         [] op = "ROUT" ->
              IF read(m1.regs, a) < 8
              THEN IF index_panics(read(m1.regs, a), NumPorts) THEN panic
                   ELSE [m1 EXCEPT !.ports_out =
                                     store_port(m1.ports_out, read(m1.regs, a), read(m1.regs, b))]
              ELSE m1
         [] op = "STORE" ->
              IF a < 16
              THEN IF index_panics(a, RamSize) THEN panic
                   ELSE [m1 EXCEPT !.ram[a] = read(m1.regs, b)]
              ELSE m1
         [] op = "LOAD" ->
              IF b < 16
              THEN IF index_panics(b, RamSize) THEN panic
                   ELSE [m1 EXCEPT !.next_regs = write(m1.next_regs, a, m1.ram[b])]
              ELSE m1
         [] op = "PUSH" ->
              IF m1.sp >= 0
              THEN IF index_panics(m1.sp, RamSize) THEN panic
                   ELSE [m1 EXCEPT !.ram[push_slot(m1.sp)] = read(m1.regs, a),
                                   !.sp = sp_dec(m1.sp)]
              ELSE m1
         [] op = "POP" ->
              IF index_panics(sp_inc(m1.sp), RamSize) THEN panic
              ELSE [m1 EXCEPT !.sp = sp_inc(m1.sp),
                              !.next_regs = write(m1.next_regs, a, m1.ram[sp_inc(m1.sp)])]
         [] op = "CALL" ->
              IF m1.sp >= 0
              THEN IF index_panics(m1.sp, RamSize) THEN panic
                   ELSE [m1 EXCEPT !.ram[m1.sp] = ret_addr(address),
                                   !.sp = sp_dec(m1.sp)]
              ELSE m1
         [] OTHER -> m1

\* clock_outcomes with the stages in pipeline order: RET pops in the
\* execute stage of the instruction before the writeback of the one ahead.
clock_outcomes_execute_first(m, instrs) ==
    LET m0 == begin_cycle(m)
        m1 == write_back_stage([execute_stage(m0) EXCEPT !.execute_reg = m0.execute_reg])
        m4 == fetch_stage(decode_stage([m1 EXCEPT !.execute_reg =
                                            execute_stage(m0).execute_reg]), instrs)
    IN IF m1.panicked THEN {m1}
       ELSE {IF x.panicked THEN x ELSE end_cycle(x) : x \in increment_pc(m4)}

\* The outcomes of one unblocked clock call on the machine record m.
clock_outcomes(m, instrs) ==
    LET m1 == write_back_stage(begin_cycle(m))
        m4 == fetch_stage(decode_stage(execute_stage(m1)), instrs)
    IN IF m1.panicked THEN {m1}
       ELSE {IF x.panicked THEN x ELSE end_cycle(x) : x \in increment_pc(m4)}

\* The state Emulator::new builds before it calls load_program, and the
\* fields load_program and reset_state assign.  reset_state does not assign
\* input_register: it keeps the value `keep`.
reset_state(keep) ==
    [pc |-> 0, sp |-> 15,
     fetch_reg |-> Instruction_none, decode_reg |-> Instruction_none,
     execute_reg |-> Instruction_none, writeback_reg |-> Instruction_none,
     regs |-> Registers_new, next_regs |-> Registers_new,
     accumulator |-> 0, flags |-> AluFlags_new,
     ports_out |-> [i \in 0..(NumPorts - 1) |-> 0],
     ram |-> [i \in 0..(RamSize - 1) |-> 0],
     waiting_for_input |-> FALSE, input_register |-> keep,
     panicked |-> FALSE]

\* Assign the machine record m to the emulator's fields.
Becomes(m) ==
    /\ pc' = m.pc
    /\ sp' = m.sp
    /\ fetch_reg' = m.fetch_reg
    /\ decode_reg' = m.decode_reg
    /\ execute_reg' = m.execute_reg
    /\ writeback_reg' = m.writeback_reg
    /\ regs' = m.regs
    /\ next_regs' = m.next_regs
    /\ accumulator' = m.accumulator
    /\ flags' = m.flags
    /\ ports_out' = m.ports_out
    /\ ram' = m.ram
    /\ waiting_for_input' = m.waiting_for_input
    /\ input_register' = m.input_register
    /\ panicked' = m.panicked

(***************************************************************************)
(* Text: a string is a sequence of characters, a character is the         *)
(* one-character string of it, or, outside ASCII, its code point written   *)
(* out ("U+00A7" is the section sign, two bytes in UTF-8)                  *)
(***************************************************************************)
\* The characters of the sources below that take more than one byte.
WideChars == {"U+00A7"}

\* `&s[1..]` panics when byte 1 is not a character boundary: when the
\* first character of s takes more than one byte.
slice_panics(s) == s /= <<>> /\ Head(s) \in WideChars

\* char::is_whitespace, on the characters the sources below use.
is_whitespace(c) == c \in {" ", "\t", "\r", "\n"}

LowerLetters ==
    <<"a", "b", "c", "d", "e", "f", "g", "h", "i", "j", "k", "l", "m",
      "n", "o", "p", "q", "r", "s", "t", "u", "v", "w", "x", "y", "z">>
UpperLetters ==
    <<"A", "B", "C", "D", "E", "F", "G", "H", "I", "J", "K", "L", "M",
      "N", "O", "P", "Q", "R", "S", "T", "U", "V", "W", "X", "Y", "Z">>

\* str::to_uppercase on ASCII text: a..z become A..Z, the rest is kept.
to_uppercase(s) ==
    [i \in 1..Len(s) |->
        IF \E k \in 1..Len(LowerLetters) : LowerLetters[k] = s[i]
        THEN UpperLetters[CHOOSE k \in 1..Len(LowerLetters) : LowerLetters[k] = s[i]]
        ELSE s[i]]

\* str::find(c): the 1-based position of the first c in s, 0 when there is none.
find(s, c) ==
    IF \E i \in 1..Len(s) : s[i] = c
    THEN CHOOSE i \in 1..Len(s) : s[i] = c /\ \A j \in 1..(i - 1) : s[j] /= c
    ELSE 0

\* str::contains(c)
contains(s, c) == find(s, c) /= 0

\* s[from..]: the text after the first `from` characters.
after(s, from) == SubSeq(s, from + 1, Len(s))

RECURSIVE split(_, _)
\* str::split(c): the pieces of s between occurrences of c.
split(s, c) ==
    IF find(s, c) = 0 THEN <<s>>
    ELSE <<SubSeq(s, 1, find(s, c) - 1)>> \o split(after(s, find(s, c)), c)

\* str::trim: s without its leading and trailing whitespace.
trim(s) ==
    LET keep == {i \in 1..Len(s) : ~is_whitespace(s[i])}
    IN IF keep = {} THEN <<>>
       ELSE SubSeq(s, CHOOSE i \in keep : \A j \in keep : i <= j,
                      CHOOSE i \in keep : \A j \in keep : i >= j)

\* str::replace(c, ""): s without its occurrences of c.
remove(s, c) == SelectSeq(s, LAMBDA x : x /= c)

RECURSIVE split_whitespace(_)
\* str::split_whitespace: the maximal runs of non-whitespace characters.
split_whitespace(s) ==
    LET t == trim(s)
        ws == {i \in 1..Len(t) : is_whitespace(t[i])}
        cut == CHOOSE i \in ws : \A j \in ws : i <= j
    IN IF t = <<>> THEN <<>>
       ELSE IF ws = {} THEN <<t>>
       ELSE <<SubSeq(t, 1, cut - 1)>> \o split_whitespace(after(t, cut))

\* str::lines: the text cut at every line feed, without a final empty
\* piece; a line that a line feed ends loses the carriage return before the
\* line feed, a last line that no line feed ends keeps its carriage return.
text_lines(text) ==
    LET ps == split(text, "\n")
        qs == IF ps[Len(ps)] = <<>> THEN SubSeq(ps, 1, Len(ps) - 1) ELSE ps
    IN [i \in 1..Len(qs) |->
          IF i < Len(ps) /\ Len(qs[i]) > 0 /\ qs[i][Len(qs[i])] = "\r"
          THEN SubSeq(qs[i], 1, Len(qs[i]) - 1) ELSE qs[i]]

\* The line as both passes see it: the text before the first ';',
\* trimmed, in upper case.
clean_line(line) == to_uppercase(trim(split(line, ";")[1]))

(***************************************************************************)
(* Numbers                                                                 *)
(***************************************************************************)
Digits == <<"0", "1", "2", "3", "4", "5", "6", "7", "8", "9">>

\* char::to_digit(radix): the digit's value, or -1 when c is no digit of
\* the radix.
to_digit(c, radix) ==
    IF \E k \in 1..radix : Digits[k] = c
    THEN (CHOOSE k \in 1..radix : Digits[k] = c) - 1
    ELSE -1

Err(msg, arg) == [ok |-> FALSE, panic |-> FALSE, msg |-> msg, arg |-> arg]
\* A panic raised while the value was computed.
Panicked == [ok |-> FALSE, panic |-> TRUE, msg |-> "panic", arg |-> <<>>]
Ok(val) == [ok |-> TRUE, val |-> val]

RECURSIVE accumulate(_, _, _, _)
\* The digit loop of i32::from_str_radix: acc * radix + d per digit
\* (minus d after a '-' sign), an error on a non-digit and on leaving the
\* i32 range.
accumulate(s, radix, negative, acc) ==
    IF s = <<>> THEN Ok(acc)
    ELSE LET d == to_digit(Head(s), radix)
             lim == I32Max \div radix
             rem == I32Max % radix
             fits == IF negative
                     THEN \/ acc > -lim
                          \/ acc = -lim /\ d <= rem + 1
                          \/ acc = -lim - 1 /\ rem + 1 = radix /\ d = 0
                     ELSE acc < lim \/ (acc = lim /\ d <= rem)
         IN IF d < 0 \/ ~fits THEN Err("Invalid", s)
            ELSE accumulate(Tail(s), radix, negative,
                            IF negative THEN acc * radix - d ELSE acc * radix + d)

\* i32::from_str_radix(s, radix): an optional sign, then at least one digit.
from_str_radix(s, radix) ==
    IF s = <<>> THEN Err("Invalid", s)
    ELSE IF Head(s) \in {"+", "-"}
         THEN IF Tail(s) = <<>> THEN Err("Invalid", s)
              ELSE accumulate(Tail(s), radix, Head(s) = "-", 0)
         ELSE accumulate(s, radix, FALSE, 0)

\* Result::map_err(|_| format!("<msg>: {}", s))
map_err(r, msg, s) == IF r.ok THEN r ELSE Err(msg, s)

\* Parser::parse_binary
parse_binary(s) ==
    LET clean == remove(s, "_")
    IN IF clean /= <<>> /\ Head(clean) = "B"
       THEN map_err(from_str_radix(Tail(clean), 2), "Invalid binary", s)
       ELSE map_err(from_str_radix(clean, 10), "Invalid number", s)

(***************************************************************************)
(* The assembler: Parser of parser.rs                                      *)
(***************************************************************************)
\* The mnemonics Parser::match_op knows, as text, with their operation.
Mnemonics ==
    { <<<<"N", "O", "O", "P">>, "NOOP">>, <<<<"N", "O", "P">>, "NOOP">>,
      <<<<"I", "M", "M">>, "IMM">>, <<<<"M", "O", "V">>, "MOV">>,
      <<<<"A", "D", "D">>, "ADD">>, <<<<"A", "D", "D", "C">>, "ADDC">>,
      <<<<"S", "U", "B">>, "SUB">>, <<<<"O", "R">>, "OR">>,
      <<<<"X", "O", "R">>, "XOR">>, <<<<"A", "N", "D">>, "AND">>,
      <<<<"S", "H", "R">>, "SHR">>, <<<<"N", "O", "T">>, "NOT">>,
      <<<<"O", "U", "T">>, "OUT">>, <<<<"R", "O", "U", "T">>, "ROUT">>,
      <<<<"I", "N", "P">>, "INP">>, <<<<"J", "M", "P">>, "JMP">>,
      <<<<"B", "I", "E">>, "BIE">>, <<<<"B", "I", "G">>, "BIG">>,
      <<<<"B", "I", "L">>, "BIL">>, <<<<"B", "I", "O">>, "BIO">>,
      <<<<"S", "T", "O", "R", "E">>, "STORE">>, <<<<"L", "O", "A", "D">>, "LOAD">>,
      <<<<"P", "U", "S", "H">>, "PUSH">>, <<<<"P", "O", "P">>, "POP">>,
      <<<<"C", "A", "L", "L">>, "CALL">>, <<<<"R", "E", "T">>, "RET">> }

\* Parser::match_op: Some(operation) or None.
match_op(s) ==
    IF \E m \in Mnemonics : m[1] = s
    THEN [some |-> TRUE, val |-> (CHOOSE m \in Mnemonics : m[1] = s)[2]]
    ELSE [some |-> FALSE, val |-> "NOOP"]

\* Parser::parse_operation on a non-empty token: the mnemonic itself, or
\* one of the prefixes S, U, X before a mnemonic.
parse_operation(s) ==
    IF match_op(s).some THEN Ok([op |-> match_op(s).val, args |-> "None"])
    ELSE IF slice_panics(s) THEN Panicked
    ELSE IF match_op(Tail(s)).some /\ Head(s) \in {"S", "U", "X"}
         THEN Ok([op |-> match_op(Tail(s)).val, args |-> Head(s)])
         ELSE Err("Invalid operation", s)

ArithmeticOps == {"ADD", "ADDC", "SUB", "OR", "XOR", "AND"}

\* Parser::get_needed_operands: <<A wanted, B wanted>>.
get_needed_operands(op, args) ==
    IF op \in {"NOOP", "RET"} THEN <<FALSE, FALSE>>
    ELSE IF op \in {"IMM", "MOV", "SHR", "NOT", "OUT", "STORE", "LOAD", "ROUT"}
         THEN <<TRUE, TRUE>>
    ELSE IF op \in ArithmeticOps
         THEN (IF args = "X" THEN <<FALSE, TRUE>> ELSE <<TRUE, TRUE>>)
    ELSE <<TRUE, FALSE>>

\* The branches of Parser::parse_operand on the token s: first is its first
\* character, of_rest is parse_binary(rest) and of_s is parse_binary(s).
operand_of(first, of_rest, of_s, s, labels) ==
    IF first \in {"R", "$"} /\ of_rest.ok
    THEN Ok(Operand_new("Register", of_rest.val))
    ELSE IF first \in {"#", "@"}
         THEN (IF of_rest.ok THEN Ok(Operand_new("MemoryAddress", of_rest.val))
               ELSE of_rest)
    ELSE IF first = "%"
         THEN (IF of_rest.ok THEN Ok(Operand_new("Port", of_rest.val))
               ELSE of_rest)
    ELSE IF of_s.ok
         THEN Ok(Operand_new("Immediate", of_s.val))
    ELSE IF s \in DOMAIN labels
         THEN Ok(Operand_new("Immediate", labels[s]))
    ELSE Err("Invalid value or unknown label", s)

\* Parser::parse_operand on a non-empty token; labels is the table of
\* pass 0, a function from label text to address.
parse_operand(s, labels) ==
    IF slice_panics(s) THEN Panicked
    ELSE operand_of(Head(s), parse_binary(Tail(s)), parse_binary(s), s, labels)

\* The instruction text of a line: what follows the first ':' of the
\* cleaned line, trimmed, or the whole cleaned line when it has no ':'.
after_label(clean) ==
    IF contains(clean, ":") THEN trim(after(clean, find(clean, ":"))) ELSE clean
instruction_text(line) == after_label(clean_line(line))

\* The results of Parser::parse_line: Ok(Some(instr)) is kind "Instr",
\* Ok(None) is kind "Nothing", Err(e) is kind "Err"; kind "Panic" when it
\* does not return.
Nothing == [kind |-> "Nothing", instr |-> Instruction_none, msg |-> "", arg |-> <<>>]
Failed(e) ==
    [kind |-> IF e.panic THEN "Panic" ELSE "Err", instr |-> Instruction_none,
     msg |-> e.msg, arg |-> e.arg]
Instr(instr) == [kind |-> "Instr", instr |-> instr, msg |-> "", arg |-> <<>>]

\* The end of parse_line: ra and rb are the results of parse_operand for
\* the operands taken from the tokens, Ok of Immediate 0 for one not taken.
\* The `?` on operand A returns before operand B is parsed.
build_instruction(op, ra, rb, address, source_line) ==
    IF ~ra.ok THEN Failed(ra)
    ELSE IF ~rb.ok THEN Failed(rb)
    ELSE Instr([operation |-> op.op, args |-> op.args, a |-> ra.val, b |-> rb.val,
                address |-> address, source_line |-> source_line])

\* parse_line from the operands on: opr is the result of parse_operation.
parse_operands(opr, tokens, address, source_line, labels) ==
    LET needed == get_needed_operands(opr.val.op, opr.val.args)
        has_a == needed[1] /\ Len(tokens) >= 2
        idx_b == IF has_a THEN 3 ELSE 2
        has_b == needed[2] /\ Len(tokens) >= idx_b
        default == Ok(Operand_new("Immediate", 0))
    IN IF ~opr.ok THEN Failed(opr)
       ELSE build_instruction(opr.val,
                IF has_a THEN parse_operand(tokens[2], labels) ELSE default,
                IF has_b THEN parse_operand(tokens[idx_b], labels) ELSE default,
                address, source_line)

\* parse_line from the tokens of the instruction text on.
parse_tokens(tokens, address, source_line, labels) ==
    IF tokens = <<>> THEN Nothing
    ELSE parse_operands(parse_operation(tokens[1]), tokens, address, source_line, labels)

\* Parser::parse_line
parse_line(line, address, source_line, labels) ==
    parse_tokens(split_whitespace(instruction_text(line)), address, source_line, labels)

\* format!("Line {}: <msg>", line, args..): a diagnostic is its line, its
\* message and the values the message is filled with.
Diagnostic(line, msg, args) == [line |-> line, msg |-> msg, args |-> args]

BranchOperations == {"JMP", "CALL", "BIE", "BIG", "BIL", "BIO"}

\* Parser::check_warnings: the static warnings of one instruction, in the
\* order the code pushes them.
check_warnings(instr, line) ==
    LET op == instr.operation
        a == instr.a
        b == instr.b
        writes_to_a == op \in {"IMM", "MOV", "ADD", "ADDC", "SUB", "AND", "OR",
                                "XOR", "SHR", "NOT", "LOAD", "POP", "INP"}
        safe == op \in ArithmeticOps /\ instr.args = "X"
        when(c, w) == IF c THEN <<w>> ELSE <<>>
    IN when(writes_to_a /\ a.type_ = "Register" /\ a.data = 0 /\ ~safe,
            Diagnostic(line, "Writing to Register 0", <<>>))
       \o when(a.type_ = "Immediate" /\ (a.data < 0 \/ a.data > 255)
                 /\ op \notin BranchOperations,
               Diagnostic(line, "Immediate out of 8-bit range", <<a.data>>))
       \o when(b.type_ = "Immediate" /\ (b.data < 0 \/ b.data > 255),
               Diagnostic(line, "Immediate out of 8-bit range", <<b.data>>))
       \o when(op = "OUT" /\ a.type_ = "Port" /\ (a.data < 0 \/ a.data > 7),
               Diagnostic(line, "Port out of range", <<a.data>>))
       \o when(op = "STORE" /\ a.type_ = "MemoryAddress" /\ (a.data < 0 \/ a.data > 15),
               Diagnostic(line, "Memory address out of RAM range", <<a.data>>))
       \o when(op = "LOAD" /\ b.type_ = "MemoryAddress" /\ (b.data < 0 \/ b.data > 15),
               Diagnostic(line, "Memory address out of RAM range", <<b.data>>))

\* Parser::get_write_register: Some(register) or None.
get_write_register(instr) ==
    IF instr.a.type_ /= "Register" THEN [some |-> FALSE, val |-> 0]
    ELSE IF instr.operation \in {"IMM", "MOV", "LOAD", "POP", "INP", "SHR", "NOT"}
         THEN [some |-> TRUE, val |-> instr.a.data]
    ELSE IF instr.operation \in ArithmeticOps /\ instr.args /= "X"
         THEN [some |-> TRUE, val |-> instr.a.data]
    ELSE [some |-> FALSE, val |-> 0]

\* get_read_registers without the test of the prefix: operand A of an
\* arithmetic operation is read whatever the prefix.
get_read_registers_ignores_prefix(instr) ==
    (IF instr.a.type_ = "Register"
        /\ instr.operation \in ArithmeticOps \cup {"PUSH", "ROUT"}
     THEN <<instr.a.data>> ELSE <<>>)
    \o (IF instr.b.type_ = "Register"
           /\ instr.operation \in {"MOV", "ADD", "ADDC", "SUB", "AND", "OR", "XOR",
                                   "SHR", "NOT", "OUT", "ROUT", "STORE"}
        THEN <<instr.b.data>> ELSE <<>>)

\* Parser::get_read_registers: operand A's register, then operand B's.
get_read_registers(instr) ==
    (IF instr.a.type_ = "Register"
        /\ \/ instr.operation \in ArithmeticOps /\ instr.args \notin {"U", "X"}
           \/ instr.operation \in {"PUSH", "ROUT"}
     THEN <<instr.a.data>> ELSE <<>>)
    \o (IF instr.b.type_ = "Register"
           /\ instr.operation \in {"MOV", "ADD", "ADDC", "SUB", "AND", "OR", "XOR",
                                   "SHR", "NOT", "OUT", "ROUT", "STORE"}
        THEN <<instr.b.data>> ELSE <<>>)

\* HashMap::insert
insert(labels, key, val) ==
    [k \in (DOMAIN labels) \cup {key} |-> IF k = key THEN val ELSE labels[k]]

\* One iteration of pass 0 on a cleaned line: st is [labels, addr_counter].
scan_clean(st, clean) ==
    LET idx == find(clean, ":")
        label == SubSeq(clean, 1, idx - 1)
        labels1 == IF ~contains(label, " ")
                   THEN insert(st.labels, label, st.addr_counter)
                   ELSE st.labels
    IN IF idx /= 0
       THEN [labels |-> labels1,
             addr_counter |-> IF trim(after(clean, idx)) /= <<>>
                              THEN st.addr_counter + 1 ELSE st.addr_counter]
       ELSE [labels |-> st.labels,
             addr_counter |-> IF clean /= <<>>
                              THEN st.addr_counter + 1 ELSE st.addr_counter]

\* One iteration of pass 0 on a line.
scan_line(st, line) == scan_clean(st, clean_line(line))

RECURSIVE pass0(_, _, _)
\* Pass 0 of Parser::parse from line i on.
pass0(ls, i, st) ==
    IF i > Len(ls) THEN st ELSE pass0(ls, i + 1, scan_line(st, ls[i]))

\* The RAW hazard check of pass 1: the warning, if any, for instr coming
\* after the instructions emitted so far.
raw_hazard(emitted, instr, source_line) ==
    LET prev == emitted[Len(emitted)]
        written_reg == get_write_register(prev)
        read_regs == get_read_registers(instr)
    IN IF emitted /= <<>> /\ written_reg.some
          /\ \E k \in 1..Len(read_regs) : read_regs[k] = written_reg.val
       THEN <<Diagnostic(source_line, "RAW Hazard", <<written_reg.val>>)>>
       ELSE <<>>

\* The Err arm of pass 1: the error, tagged with its line, joins errors.
push_error(out, source_line, r) ==
    [out EXCEPT !.errors = Append(out.errors, Diagnostic(source_line, r.msg, <<r.arg>>))]

\* The match of pass 1 with addr_counter advanced by a failing line too, as
\* pass 0 advances it.
emit_counts_failed_lines(out, r, source_line) ==
    IF r.kind = "Instr"
    THEN [instructions |-> Append(out.instructions, r.instr),
          errors |-> out.errors,
          warnings |-> out.warnings \o check_warnings(r.instr, source_line)
                       \o raw_hazard(out.instructions, r.instr, source_line),
          addr_counter |-> out.addr_counter + 1,
          panicked |-> FALSE]
    ELSE IF r.kind = "Err"
         THEN [push_error(out, source_line, r) EXCEPT !.addr_counter = out.addr_counter + 1]
    ELSE IF r.kind = "Panic" THEN [out EXCEPT !.panicked = TRUE]
    ELSE out

\* The match of pass 1 on r, the result of parse_line: out is
\* [instructions, errors, warnings, addr_counter, panicked].
emit(out, r, source_line) ==
    IF r.kind = "Instr"
    THEN [instructions |-> Append(out.instructions, r.instr),
          errors |-> out.errors,
          warnings |-> out.warnings \o check_warnings(r.instr, source_line)
                       \o raw_hazard(out.instructions, r.instr, source_line),
          addr_counter |-> out.addr_counter + 1,
          panicked |-> FALSE]
    ELSE IF r.kind = "Err" THEN push_error(out, source_line, r)
    ELSE IF r.kind = "Panic" THEN [out EXCEPT !.panicked = TRUE]
    ELSE out

\* One iteration of pass 1 on a line.
emit_line(out, line, source_line, labels) ==
    emit(out, parse_line(line, out.addr_counter, source_line, labels), source_line)

RECURSIVE pass1(_, _, _, _)
\* Pass 1 of Parser::parse from line i on.
pass1(ls, i, labels, out) ==
    IF i > Len(ls) \/ out.panicked THEN out
    ELSE pass1(ls, i + 1, labels, emit_line(out, ls[i], i, labels))

\* Parser::parse(code): the record's instructions, errors and warnings
\* are the triple the code returns, unless it panicked.
parse(text) ==
    LET ls == text_lines(text)
        st == pass0(ls, 1, [labels |-> <<>>, addr_counter |-> 0])
    IN pass1(ls, 1, st.labels,
             [instructions |-> <<>>, errors |-> <<>>, warnings |-> <<>>,
              addr_counter |-> 0, panicked |-> FALSE])

\* What load_program holds after its call of Parser::parse(text): the
\* triple returned, or the cleared fields if the call panicked.
held(r) ==
    IF r.panicked
    THEN [instructions |-> <<>>, errors |-> <<>>, warnings |-> <<>>, panicked |-> TRUE]
    ELSE [instructions |-> r.instructions, errors |-> r.errors,
          warnings |-> r.warnings, panicked |-> FALSE]
\* Parser::parse(text) as load_program calls it.
parsed(text) == held(parse(text))

(***************************************************************************)
(* Programs: instruction streams as Parser::parse emits them               *)
(***************************************************************************)
Reg(n) == Operand_new("Register", n)
Mem(n) == Operand_new("MemoryAddress", n)
Port(n) == Operand_new("Port", n)
Imm(n) == Operand_new("Immediate", n)

\* One parsed line before its address is known.  A missing operand is
\* Immediate 0 (parse_line's defaults).
Op2(op, args, a, b) == [operation |-> op, args |-> args, a |-> a, b |-> b]
Op1(op, a) == Op2(op, "None", a, Imm(0))
Op0(op) == Op2(op, "None", Imm(0), Imm(0))
\* The line "X<op> v", one operand after the word.  The word XOR is the
\* operation XOR without prefix (parse_operation matches the whole word
\* first) and v is its operand A; XSHR and XNOT need both operands, so v is
\* operand A; the other X-prefixed operations need operand B only.
OpX(op, v) ==
    IF op = "OR" THEN Op2("XOR", "None", v, Imm(0))
    ELSE IF op \in {"SHR", "NOT"} THEN Op2(op, "X", v, Imm(0))
    ELSE Op2(op, "X", Imm(0), v)
NOOP == Op0("NOOP")

Rep(x, n) == [i \in 1..n |-> x]

\* Pass 1 of Parser::parse for a source of Len(lines) well-formed lines:
\* the i-th line becomes the instruction at address i - 1.
Program(lines) ==
    [i \in 1..Len(lines) |->
        [operation |-> lines[i].operation, args |-> lines[i].args,
         a |-> lines[i].a, b |-> lines[i].b,
         address |-> i - 1, source_line |-> i]]

RECURSIVE diagnose_range(_, _, _)
\* The warnings pass 1 collects for the instructions lo..hi of a stream, in
\* order: per instruction its static warnings, then its RAW hazard warning.
diagnose_range(instrs, lo, hi) ==
    IF lo > hi THEN <<>>
    ELSE IF lo = hi
    THEN check_warnings(instrs[lo], instrs[lo].source_line)
         \o raw_hazard(SubSeq(instrs, 1, lo - 1), instrs[lo], instrs[lo].source_line)
    ELSE LET mid == (lo + hi) \div 2
         IN diagnose_range(instrs, lo, mid) \o diagnose_range(instrs, mid + 1, hi)

\* The warnings pass 1 collects, from the k-th instruction on, for the
\* stream of a source whose every line parses.
diagnose(instrs, k) == diagnose_range(instrs, k, Len(instrs))

\* IMM Rr v / NOOP x 4
ImmProgram(r, v) ==
    Program(<<Op2("IMM", "None", Reg(r), Imm(v))>> \o Rep(NOOP, 4))

\* IMM Rr v / NOOP x 3 / STORE #a Rr / NOOP x gap / LOAD Rk #a / NOOP
StoreLoadProgram(a, r, k, v, gap) ==
    Program(<<Op2("IMM", "None", Reg(r), Imm(v))>> \o Rep(NOOP, 3)
            \o <<Op2("STORE", "None", Mem(a), Reg(r))>> \o Rep(NOOP, gap)
            \o <<Op2("LOAD", "None", Reg(k), Mem(a)), NOOP>>)

\* IMM Rr v / NOOP x 3 / OUT %p Rr / NOOP
OutProgram(p, r, v) ==
    Program(<<Op2("IMM", "None", Reg(r), Imm(v))>> \o Rep(NOOP, 3)
            \o <<Op2("OUT", "None", Port(p), Reg(r)), NOOP>>)

\* Instructions that take sp from 15 to sp0 and write no register:
\* 15 - sp0 times PUSH R0 for sp0 >= 8, sp0 + 1 times POP R0 below.
SpPrefix(sp0) ==
    IF sp0 >= 8 THEN Rep(Op1("PUSH", Reg(0)), 15 - sp0)
    ELSE Rep(Op1("POP", Reg(0)), sp0 + 1)

\* IMM Ra v / NOOP x 3 / SpPrefix(sp0) / PUSH Ra / NOOP x gap / POP Rb / NOOP
PushPopProgram(sp0, a, b, v, gap) ==
    Program(<<Op2("IMM", "None", Reg(a), Imm(v))>> \o Rep(NOOP, 3)
            \o SpPrefix(sp0)
            \o <<Op1("PUSH", Reg(a))>> \o Rep(NOOP, gap)
            \o <<Op1("POP", Reg(b)), NOOP>>)
PushIndex(sp0) == 4 + Len(SpPrefix(sp0))
PopIndex(sp0, gap) == PushIndex(sp0) + 1 + gap

\* Subroutine bodies with balanced stack use that leave the saved slot alone.
CallBodies ==
    { <<>>,
      <<Op2("IMM", "None", Reg(2), Imm(4))>>,
      <<Op2("IMM", "None", Reg(2), Imm(4)), Op1("PUSH", Reg(2)), Op1("POP", Reg(3))>> }

\* SpPrefix(sp0) / NOOP x k / CALL SUB / IMM R1 9 / HALT: JMP HALT /
\* SUB: body / RET.  The CALL is at address Len(SpPrefix(sp0)) + k.
CallRetProgram(sp0, k, body) ==
    LET c == Len(SpPrefix(sp0)) + k
    IN Program(SpPrefix(sp0) \o Rep(NOOP, k)
               \o <<Op1("CALL", Imm(c + 3)),
                    Op2("IMM", "None", Reg(1), Imm(9)),
                    Op1("JMP", Imm(c + 2))>>
               \o body \o <<Op0("RET")>>)
CallIndex(sp0, k) == Len(SpPrefix(sp0)) + k

\* pre / INP Rr / post / NOOP
InpProgram(pre, r, post) ==
    Program(pre \o <<Op1("INP", Reg(r))>> \o post \o <<NOOP>>)
InpPre ==
    { <<>>,
      <<Op2("IMM", "None", Reg(1), Imm(5))>>,
      <<Op2("NOT", "None", Reg(3), Reg(0))>>,
      <<Op1("JMP", Imm(1))>> }
InpPost ==
    { <<>>,
      <<Op2("NOT", "None", Reg(2), Reg(0))>>,
      <<Op1("INP", Reg(2))>>,
      <<Op2("ADD", "None", Reg(3), Reg(3))>>,
      <<Op1("JMP", Imm(I32Max))>> }

\* A branch as the only instruction: op target
BranchProgram(op, target) == Program(<<Op1(op, Imm(target))>>)

\* IMM R1 v / NOOP x 3 / PUSH R1 / RET: a RET whose target is read from RAM
RetProgram(v) ==
    Program(<<Op2("IMM", "None", Reg(1), Imm(v))>> \o Rep(NOOP, 3)
            \o <<Op1("PUSH", Reg(1)), Op0("RET")>>)

\* IMM R1 x / IMM R2 y / NOOP x 3 / op R1 R2 (X prefix: op R2) / NOOP
AluProgram(op, args, x, y) ==
    Program(<<Op2("IMM", "None", Reg(1), Imm(x)),
              Op2("IMM", "None", Reg(2), Imm(y))>> \o Rep(NOOP, 3)
            \o <<IF args = "X" THEN OpX(op, Reg(2))
                 ELSE Op2(op, args, Reg(1), Reg(2)), NOOP>>)

\* IMM Ra x / IMM Rb y / NOOP x 3 / ADD Ra Rb / NOOP
AddProgram(a, b, x, y) ==
    Program(<<Op2("IMM", "None", Reg(a), Imm(x)),
              Op2("IMM", "None", Reg(b), Imm(y))>> \o Rep(NOOP, 3)
            \o <<Op2("ADD", "None", Reg(a), Reg(b)), NOOP>>)

\* IMM Rr v / NOOP x 3 / SpPrefix(sp0) / PUSH Rr / RET: the RET follows the
\* PUSH immediately, with sp at sp0 before the PUSH.
PushRetProgram(sp0, r, v) ==
    Program(<<Op2("IMM", "None", Reg(r), Imm(v))>> \o Rep(NOOP, 3)
            \o SpPrefix(sp0) \o <<Op1("PUSH", Reg(r)), Op0("RET")>>)

\* IMM R1 x / IMM R2 y / NOOP x 3 / ADD R1 R2 / Uop R3 R2 (X prefix:
\* Xop R2) / NOOP: the prefixed operation finds x + y in the accumulator.
PrefixProgram(op, args, x, y) ==
    Program(<<Op2("IMM", "None", Reg(1), Imm(x)),
              Op2("IMM", "None", Reg(2), Imm(y))>> \o Rep(NOOP, 3)
            \o <<Op2("ADD", "None", Reg(1), Reg(2)),
                 IF args = "X" THEN OpX(op, Reg(2))
                 ELSE Op2(op, args, Reg(3), Reg(2)), NOOP>>)

\* IMM R1 x / IMM R2 y / NOOP x 3 / SUB R1 R2 / bop target / IMM R3 1
CondBranchProgram(bop, x, y, target) ==
    Program(<<Op2("IMM", "None", Reg(1), Imm(x)),
              Op2("IMM", "None", Reg(2), Imm(y))>> \o Rep(NOOP, 3)
            \o <<Op2("SUB", "None", Reg(1), Reg(2)),
                 Op1(bop, Imm(target)),
                 Op2("IMM", "None", Reg(3), Imm(1))>>)

\* IMM R1 x / IMM R2 y / NOOP x 3 / SUB R1 R2 / bop 9 / IMM R3 1 / JMP 8 /
\* IMM R4 1 / JMP 10: the fall-through instruction marks R3, the instruction
\* at the branch target (address 9) marks R4, and each path ends in a loop
\* on itself.
BranchScenarioProgram(bop, x, y) ==
    Program(<<Op2("IMM", "None", Reg(1), Imm(x)),
              Op2("IMM", "None", Reg(2), Imm(y))>> \o Rep(NOOP, 3)
            \o <<Op2("SUB", "None", Reg(1), Reg(2)),
                 Op1(bop, Imm(9)),
                 Op2("IMM", "None", Reg(3), Imm(1)),
                 Op1("JMP", Imm(8)),
                 Op2("IMM", "None", Reg(4), Imm(1)),
                 Op1("JMP", Imm(10))>>)

\* IMM R1 3 / IMM R3 12 / IMM R2 6 / NOOP x 3 / STORE #3 R3 / PUSH R3 /
\* NOOP x 2 / w / r / NOOP x 2: w (address 10) writes R1 after R1, R2 and R3
\* have settled to 3, 6 and 12, and r (address 11) follows it immediately.
HazardProgram(w, r) ==
    Program(<<Op2("IMM", "None", Reg(1), Imm(3)),
              Op2("IMM", "None", Reg(3), Imm(12)),
              Op2("IMM", "None", Reg(2), Imm(6))>> \o Rep(NOOP, 3)
            \o <<Op2("STORE", "None", Mem(3), Reg(3)), Op1("PUSH", Reg(3))>>
            \o Rep(NOOP, 2) \o <<w, r>> \o Rep(NOOP, 2))

\* The prelude of HazardProgram / w / g / r / NOOP x 2: one instruction g
\* that does not write R1 lies between the writer w (address 10) and the
\* reader r (address 12).
GapHazardProgram(w, g, r) ==
    Program(<<Op2("IMM", "None", Reg(1), Imm(3)),
              Op2("IMM", "None", Reg(3), Imm(12)),
              Op2("IMM", "None", Reg(2), Imm(6))>> \o Rep(NOOP, 3)
            \o <<Op2("STORE", "None", Mem(3), Reg(3)), Op1("PUSH", Reg(3))>>
            \o Rep(NOOP, 2) \o <<w, g, r>> \o Rep(NOOP, 2))

\* JMP 256 / NOOP x 255 / CALL 0: the CALL, at address 256, is reached
\* through the JMP only.
FarCallProgram ==
    Program(<<Op1("JMP", Imm(256))>> \o Rep(NOOP, 255) \o <<Op1("CALL", Imm(0))>>)

\* IMM R1 5 / NOOP x 3 / a write of a non-zero value aimed at register 0
ZeroRegWriters ==
    { <<Op2("IMM", "None", Reg(0), Imm(5))>>,
      <<Op2("MOV", "None", Reg(0), Reg(1))>>,
      <<Op2("ADD", "None", Reg(0), Reg(1))>>,
      <<Op2("OR", "U", Reg(0), Reg(1))>>,
      <<Op2("SHR", "None", Reg(0), Reg(1))>>,
      <<Op2("NOT", "None", Reg(0), Reg(1))>>,
      <<Op2("STORE", "None", Mem(3), Reg(1)), Op2("LOAD", "None", Reg(0), Mem(3))>>,
      <<Op1("PUSH", Reg(1)), Op1("POP", Reg(0))>>,
      <<Op1("INP", Reg(0))>>,
      <<Op1("INP", Reg(-1))>> }
ZeroRegProgram(w) ==
    Program(<<Op2("IMM", "None", Reg(1), Imm(5))>> \o Rep(NOOP, 3) \o w \o <<NOOP>>)

\* Every two-instruction program over this pool.
Pool ==
    { NOOP,
      Op2("IMM", "None", Reg(1), Imm(5)),
      Op2("MOV", "None", Reg(2), Reg(1)),
      Op2("ADD", "None", Reg(1), Reg(1)),
      Op2("ADDC", "S", Reg(2), Reg(1)),
      Op2("SUB", "U", Reg(3), Reg(1)),
      OpX("XOR", Reg(1)),
      Op2("NOT", "None", Reg(1), Reg(2)),
      Op2("OUT", "None", Port(1), Reg(1)),
      Op2("ROUT", "None", Reg(1), Reg(1)),
      Op2("STORE", "None", Mem(15), Reg(1)),
      Op2("LOAD", "None", Reg(1), Mem(15)),
      Op1("PUSH", Reg(1)),
      Op1("POP", Reg(1)),
      Op1("CALL", Imm(1)),
      Op0("RET"),
      Op1("JMP", Imm(0)),
      Op1("BIE", Imm(0)),
      Op1("INP", Reg(1)) }
PoolProgram(x, y) == Program(<<x, y>>)

ImmRegs == 0..8
ImmValues == (0..256) \cup {-1, 300}
MemAddrs == (-1)..17
PortIndexes == (-1)..9
SampleRegs == {1, 7}
SampleBytes == {0, 1, 170, 255}
StackPointers == 0..15
Gaps == {0, 1}
BranchOps == {"JMP", "CALL", "BIE", "BIG", "BIL", "BIO"}
BranchTargets == {-5, -1, 0, 1, 253, 254, 255, 256, 300, I32Max}
RetTargets == {0, 5, 254, 255}
AluOps == {"ADD", "ADDC", "SUB", "OR", "XOR", "AND", "SHR", "NOT"}
AluArgs == {"None", "S", "U", "X"}
AluPairs == {<<7, 5>>, <<5, 7>>, <<5, 5>>, <<200, 100>>, <<0, 0>>, <<255, 1>>}
CondTargets == {-5, 0, 9}
AddTargets == {1, 3, 7}
BinaryOps == {"ADD", "ADDC", "SUB", "AND", "OR", "XOR"}
\* The operations a one-operand line can carry with the prefix X in operand
\* B: no line gives OR with the prefix X, the word XOR being an operation.
XPrefixOps == BinaryOps \ {"OR"}
\* The operation and prefix of the lines of AluProgram and PrefixProgram.
AluVariants == {oa \in AluOps \X AluArgs : ~(oa[1] = "OR" /\ oa[2] = "X")}
PrefixVariants == {oa \in BinaryOps \X {"U", "X"} : ~(oa[1] = "OR" /\ oa[2] = "X")}
\* Writers of R1, one per row of the writer table; each writes a value other
\* than 3 when R3 == 12, RAM[3] == 12 and the top of the stack is 12.
HazardWriters ==
    { Op2("IMM", "None", Reg(1), Imm(5)),
      Op2("MOV", "None", Reg(1), Reg(3)),
      Op2("LOAD", "None", Reg(1), Mem(3)),
      Op1("POP", Reg(1)),
      Op1("INP", Reg(1)),
      Op2("SHR", "None", Reg(1), Reg(3)),
      Op2("NOT", "None", Reg(1), Reg(3)),
      Op2("ADD", "S", Reg(1), Reg(3)),
      Op2("ADD", "U", Reg(1), Reg(3)) }
    \cup {Op2(op, "None", Reg(1), Reg(3)) : op \in BinaryOps}
\* Readers of R1, through operand A or operand B, one per row of the reader
\* tables.
HazardReaders ==
    {Op2(op, args, Reg(1), Reg(2)) : op \in BinaryOps, args \in {"None", "S"}}
    \cup {Op2(op, args, Reg(2), Reg(1)) : op \in BinaryOps, args \in {"None", "S", "U"}}
    \cup {OpX(op, Reg(1)) : op \in XPrefixOps}
    \cup { Op2("SHR", "None", Reg(2), Reg(1)),
           Op2("NOT", "None", Reg(2), Reg(1)),
           Op2("MOV", "None", Reg(2), Reg(1)),
           Op2("OUT", "None", Port(1), Reg(1)),
           Op2("ROUT", "None", Reg(1), Reg(2)),
           Op2("ROUT", "None", Reg(2), Reg(1)),
           Op2("STORE", "None", Mem(4), Reg(1)),
           Op1("PUSH", Reg(1)) }
\* Instructions that consume R1 without being readers of R1 for
\* get_read_registers: SHR and NOT compare operand A with operand B for the
\* flags, and operand B is read as a register whatever its operand type.
UnwarnedReaders ==
    { Op2("SHR", "None", Reg(1), Reg(2)),
      Op2("NOT", "None", Reg(1), Reg(2)),
      Op2("ADD", "None", Reg(2), Imm(1)),
      Op2("SUB", "S", Reg(2), Mem(1)),
      Op2("NOT", "None", Reg(2), Port(1)),
      OpX("XOR", Imm(1)) }
UnwarnedPrograms == {HazardProgram(w, r) : w \in HazardWriters, r \in UnwarnedReaders}
AddSources == {0, 2, 7}
HazardPrograms == {HazardProgram(w, r) : w \in HazardWriters, r \in HazardReaders}
\* Instructions that do not write R1: a NOOP, and an X-prefixed ADD, which
\* changes the accumulator and the flags between writer and reader.
HazardGaps == {NOOP, OpX("ADD", Reg(3))}
GapHazardPrograms ==
    {GapHazardProgram(w, g, r) : w \in HazardWriters, g \in HazardGaps, r \in HazardReaders}
PushRetSps == {15, 14, 8, 7, 0}
PushRetValues == {0, 2, 9, 200}
PushRetPrograms ==
    {PushRetProgram(s, r, v) : s \in PushRetSps, r \in SampleRegs, v \in PushRetValues}
PrefixPrograms ==
    {PrefixProgram(oa[1], oa[2], xy[1], xy[2]) : oa \in PrefixVariants, xy \in AluPairs}

Programs ==
    {ImmProgram(r, v) : r \in ImmRegs, v \in ImmValues}
    \cup {StoreLoadProgram(a, r, k, v, g) :
            a \in MemAddrs, r \in SampleRegs, k \in {0, 1, 7}, v \in SampleBytes, g \in Gaps}
    \cup {OutProgram(p, r, v) : p \in PortIndexes, r \in SampleRegs, v \in SampleBytes}
    \cup {PushPopProgram(s, a, b, v, g) :
            s \in StackPointers, a \in {1}, b \in SampleRegs, v \in SampleBytes, g \in Gaps}
    \cup {CallRetProgram(s, k, body) : s \in {15, 14, 0}, k \in 0..2, body \in CallBodies}
    \cup {InpProgram(pre, r, post) : pre \in InpPre, r \in {0, 3, 7, 8}, post \in InpPost}
    \cup {BranchProgram(op, t) : op \in BranchOps, t \in BranchTargets}
    \cup {RetProgram(v) : v \in RetTargets}
    \cup {AluProgram(oa[1], oa[2], xy[1], xy[2]) : oa \in AluVariants, xy \in AluPairs}
    \cup {CondBranchProgram(bop, xy[1], xy[2], t) :
            bop \in {"BIE", "BIG", "BIL", "BIO"}, xy \in AluPairs, t \in CondTargets}
    \cup {AddProgram(a, b, xy[1], xy[2]) :
            a \in AddTargets, b \in AddSources, xy \in AluPairs}
    \cup HazardPrograms
    \cup PrefixPrograms
    \cup PushRetPrograms
    \cup UnwarnedPrograms
    \cup GapHazardPrograms
    \cup {BranchScenarioProgram(bop, xy[1], xy[2]) :
            bop \in {"BIE", "BIG", "BIL", "BIO"}, xy \in AluPairs}
    \cup {ZeroRegProgram(w) : w \in ZeroRegWriters}
    \cup {PoolProgram(x, y) : x \in Pool, y \in Pool}
    \cup {FarCallProgram}

\* The programs load_program is called with.
ReloadPrograms ==
    { ImmProgram(1, 170),
      InpProgram(<<>>, 3, <<>>),
      CallRetProgram(15, 0, <<Op2("IMM", "None", Reg(2), Imm(4))>>) }

\* The values resolve_input is called with.
InputValues == {-1, 0, 42, 255, 298}

(***************************************************************************)
(* Source texts                                                            *)
(***************************************************************************)
RECURSIVE join(_, _)
\* The texts of ss with sep between them.
join(ss, sep) ==
    IF ss = <<>> THEN <<>>
    ELSE IF Len(ss) = 1 THEN ss[1]
    ELSE ss[1] \o sep \o join(Tail(ss), sep)

\* A source text of the given lines.
Source(ls) == join(ls, <<"\n">>)

\* Lines that write a register, read one, do both or do neither.
HazardLines ==
    {
      \* IMM R1 5
      <<"I", "M", "M", " ", "R", "1", " ", "5">>,
      \* IMM R2 5
      <<"I", "M", "M", " ", "R", "2", " ", "5">>,
      \* IMM 5 R1
      <<"I", "M", "M", " ", "5", " ", "R", "1">>,
      \* MOV R1 R2
      <<"M", "O", "V", " ", "R", "1", " ", "R", "2">>,
      \* MOV R2 R1
      <<"M", "O", "V", " ", "R", "2", " ", "R", "1">>,
      \* LOAD R1 #3
      <<"L", "O", "A", "D", " ", "R", "1", " ", "#", "3">>,
      \* POP R1
      <<"P", "O", "P", " ", "R", "1">>,
      \* INP R1
      <<"I", "N", "P", " ", "R", "1">>,
      \* ADD R1 R2
      <<"A", "D", "D", " ", "R", "1", " ", "R", "2">>,
      \* ADD R2 R1
      <<"A", "D", "D", " ", "R", "2", " ", "R", "1">>,
      \* UADD R1 R2
      <<"U", "A", "D", "D", " ", "R", "1", " ", "R", "2">>,
      \* XADD R1
      <<"X", "A", "D", "D", " ", "R", "1">>,
      \* XADD R2 R1
      <<"X", "A", "D", "D", " ", "R", "2", " ", "R", "1">>,
      \* SSUB R2 R1
      <<"S", "S", "U", "B", " ", "R", "2", " ", "R", "1">>,
      \* SHR R1 R2
      <<"S", "H", "R", " ", "R", "1", " ", "R", "2">>,
      \* NOT R2 R1
      <<"N", "O", "T", " ", "R", "2", " ", "R", "1">>,
      \* OUT %1 R1
      <<"O", "U", "T", " ", "%", "1", " ", "R", "1">>,
      \* ROUT R1 R2
      <<"R", "O", "U", "T", " ", "R", "1", " ", "R", "2">>,
      \* STORE #3 R1
      <<"S", "T", "O", "R", "E", " ", "#", "3", " ", "R", "1">>,
      \* PUSH R1
      <<"P", "U", "S", "H", " ", "R", "1">>,
      \* NOOP
      <<"N", "O", "O", "P">>,
      \* JMP 0
      <<"J", "M", "P", " ", "0">> }

\* Lines put between a writer and a reader.
GapLines ==
    {
      \* NOOP
      <<"N", "O", "O", "P">>,
      \* (empty)
      <<>>,
      \* ; comment
      <<";", " ", "c", "o", "m", "m", "e", "n", "t">>,
      \* FOO R1
      <<"F", "O", "O", " ", "R", "1">> }

\* Lines put before a label: some emit an instruction, some emit nothing,
\* some fail to parse.
PreLines ==
    {
      \* NOOP
      <<"N", "O", "O", "P">>,
      \* (empty)
      <<>>,
      \* ; c
      <<";", " ", "c">>,
      \* FOO R1
      <<"F", "O", "O", " ", "R", "1">>,
      \* IMM R1 QQ
      <<"I", "M", "M", " ", "R", "1", " ", "Q", "Q">>,
      \* IMM R1 #Z
      <<"I", "M", "M", " ", "R", "1", " ", "#", "Z">>,
      \* Q:
      <<"Q", ":">>,
      \* Q: NOOP
      <<"Q", ":", " ", "N", "O", "O", "P">>,
      \* Q: FOO
      <<"Q", ":", " ", "F", "O", "O">> }

\* Whole source texts: the scenarios of the documentation, label forms,
\* number forms, and lines that fail to parse.
MiscSources ==
    {
      \* FOO / CALL 2 / IMM R1 9 / RET
      <<"F", "O", "O", "\n", "C", "A", "L", "L", " ", "2", "\n", "I", "M", "M", " ", "R", "1", " ", "9", "\n", "R", "E", "T">>,
      \* IMM R1 7 / NOOP / NOOP / NOOP / IMM R2 5 / NOOP / NOOP / NOOP / ADD R1 R2 / NOOP
      <<"I", "M", "M", " ", "R", "1", " ", "7", "\n", "N", "O", "O", "P", "\n", "N", "O", "O", "P", "\n", "N", "O", "O", "P", "\n", "I", "M", "M", " ", "R", "2", " ", "5", "\n", "N", "O", "O", "P", "\n", "N", "O", "O", "P", "\n", "N", "O", "O", "P", "\n", "A", "D", "D", " ", "R", "1", " ", "R", "2", "\n", "N", "O", "O", "P">>,
      \* IMM R1 B10101010 / NOOP / NOOP / NOOP / OUT %3 R1 / NOOP
      <<"I", "M", "M", " ", "R", "1", " ", "B", "1", "0", "1", "0", "1", "0", "1", "0", "\n", "N", "O", "O", "P", "\n", "N", "O", "O", "P", "\n", "N", "O", "O", "P", "\n", "O", "U", "T", " ", "%", "3", " ", "R", "1", "\n", "N", "O", "O", "P">>,
      \* CALL SUB / IMM R1 9 / HALT: JMP HALT / SUB: IMM R2 4 / RET
      <<"C", "A", "L", "L", " ", "S", "U", "B", "\n", "I", "M", "M", " ", "R", "1", " ", "9", "\n", "H", "A", "L", "T", ":", " ", "J", "M", "P", " ", "H", "A", "L", "T", "\n", "S", "U", "B", ":", " ", "I", "M", "M", " ", "R", "2", " ", "4", "\n", "R", "E", "T">>,
      \* IMM R1 5 / IMM R2 5 / NOOP / NOOP / NOOP / SUB R1 R2 / BIE TARGET / IMM R3 1 / TARGET: IMM R4 1
      <<"I", "M", "M", " ", "R", "1", " ", "5", "\n", "I", "M", "M", " ", "R", "2", " ", "5", "\n", "N", "O", "O", "P", "\n", "N", "O", "O", "P", "\n", "N", "O", "O", "P", "\n", "S", "U", "B", " ", "R", "1", " ", "R", "2", "\n", "B", "I", "E", " ", "T", "A", "R", "G", "E", "T", "\n", "I", "M", "M", " ", "R", "3", " ", "1", "\n", "T", "A", "R", "G", "E", "T", ":", " ", "I", "M", "M", " ", "R", "4", " ", "1">>,
      \* INP R3 / NOOP
      <<"I", "N", "P", " ", "R", "3", "\n", "N", "O", "O", "P">>,
      \* IMM R1 5 / NOOP / ADD R2 R1
      <<"I", "M", "M", " ", "R", "1", " ", "5", "\n", "N", "O", "O", "P", "\n", "A", "D", "D", " ", "R", "2", " ", "R", "1">>,
      \* ; c /  / start: imm r1 1 /   jmp start ; back
      <<";", " ", "c", "\n", "\n", "s", "t", "a", "r", "t", ":", " ", "i", "m", "m", " ", "r", "1", " ", "1", "\n", " ", " ", "j", "m", "p", " ", "s", "t", "a", "r", "t", " ", ";", " ", "b", "a", "c", "k">>,
      \* NOOP / A: / B2: / NOOP / JMP B2
      <<"N", "O", "O", "P", "\n", "A", ":", "\n", "B", "2", ":", "\n", "N", "O", "O", "P", "\n", "J", "M", "P", " ", "B", "2">>,
      \* NOOP / NOOP / B1: NOOP / JMP B1
      <<"N", "O", "O", "P", "\n", "N", "O", "O", "P", "\n", "B", "1", ":", " ", "N", "O", "O", "P", "\n", "J", "M", "P", " ", "B", "1">>,
      \* NOOP / NOOP / R1: NOOP / JMP R1
      <<"N", "O", "O", "P", "\n", "N", "O", "O", "P", "\n", "R", "1", ":", " ", "N", "O", "O", "P", "\n", "J", "M", "P", " ", "R", "1">>,
      \* R: NOOP / JMP R
      <<"R", ":", " ", "N", "O", "O", "P", "\n", "J", "M", "P", " ", "R">>,
      \* IMM R1 LATE / NOOP / LATE: NOOP
      <<"I", "M", "M", " ", "R", "1", " ", "L", "A", "T", "E", "\n", "N", "O", "O", "P", "\n", "L", "A", "T", "E", ":", " ", "N", "O", "O", "P">>,
      \* MY LABEL: NOOP / JMP LABEL
      <<"M", "Y", " ", "L", "A", "B", "E", "L", ":", " ", "N", "O", "O", "P", "\n", "J", "M", "P", " ", "L", "A", "B", "E", "L">>,
      \* A: NOOP / A: NOOP / JMP A
      <<"A", ":", " ", "N", "O", "O", "P", "\n", "A", ":", " ", "N", "O", "O", "P", "\n", "J", "M", "P", " ", "A">>,
      \* : NOOP / NOOP
      <<":", " ", "N", "O", "O", "P", "\n", "N", "O", "O", "P">>,
      \* X: Y: NOOP
      <<"X", ":", " ", "Y", ":", " ", "N", "O", "O", "P">>,
      \* <tab>IMM<tab>R1<tab>5
      <<"\t", "I", "M", "M", "\t", "R", "1", "\t", "5">>,
      \* NOOP<cr> / END: NOOP<cr> / JMP END<cr> / 
      <<"N", "O", "O", "P", "\r", "\n", "E", "N", "D", ":", " ", "N", "O", "O", "P", "\r", "\n", "J", "M", "P", " ", "E", "N", "D", "\r", "\n">>,
      \* NOOP ; note: x / JMP 0
      <<"N", "O", "O", "P", " ", ";", " ", "n", "o", "t", "e", ":", " ", "x", "\n", "J", "M", "P", " ", "0">>,
      \* IMM R1 256 / OUT %8 R1 / STORE #16 R1 / LOAD R0 #16
      <<"I", "M", "M", " ", "R", "1", " ", "2", "5", "6", "\n", "O", "U", "T", " ", "%", "8", " ", "R", "1", "\n", "S", "T", "O", "R", "E", " ", "#", "1", "6", " ", "R", "1", "\n", "L", "O", "A", "D", " ", "R", "0", " ", "#", "1", "6">>,
      \* IMM R0 -1 / ADD 300 R1 / JMP 300 / XADD R0
      <<"I", "M", "M", " ", "R", "0", " ", "-", "1", "\n", "A", "D", "D", " ", "3", "0", "0", " ", "R", "1", "\n", "J", "M", "P", " ", "3", "0", "0", "\n", "X", "A", "D", "D", " ", "R", "0">>,
      \* LOAD R1 #-1
      <<"L", "O", "A", "D", " ", "R", "1", " ", "#", "-", "1">>,
      \* IMM R1 B1111_1111
      <<"I", "M", "M", " ", "R", "1", " ", "B", "1", "1", "1", "1", "_", "1", "1", "1", "1">>,
      \* IMM R1 / ADD / NOOP 1 2 3 / JMP
      <<"I", "M", "M", " ", "R", "1", "\n", "A", "D", "D", "\n", "N", "O", "O", "P", " ", "1", " ", "2", " ", "3", "\n", "J", "M", "P">>,
      \* IMM $1 5 / STORE @3 $1
      <<"I", "M", "M", " ", "$", "1", " ", "5", "\n", "S", "T", "O", "R", "E", " ", "@", "3", " ", "$", "1">>,
      \* IMM R1 # / OUT % R1 / IMM R1 5X / S / XNOOP / NOP
      <<"I", "M", "M", " ", "R", "1", " ", "#", "\n", "O", "U", "T", " ", "%", " ", "R", "1", "\n", "I", "M", "M", " ", "R", "1", " ", "5", "X", "\n", "S", "\n", "X", "N", "O", "O", "P", "\n", "N", "O", "P">>,
      \* IMM R1 2147483648 / JMP 2147483647 / JMP -2147483648 / IMM R1 B2
      <<"I", "M", "M", " ", "R", "1", " ", "2", "1", "4", "7", "4", "8", "3", "6", "4", "8", "\n", "J", "M", "P", " ", "2", "1", "4", "7", "4", "8", "3", "6", "4", "7", "\n", "J", "M", "P", " ", "-", "2", "1", "4", "7", "4", "8", "3", "6", "4", "8", "\n", "I", "M", "M", " ", "R", "1", " ", "B", "2">>,
      \* FOO / BAR / NOOP
      <<"F", "O", "O", "\n", "B", "A", "R", "\n", "N", "O", "O", "P">>,
      \* U+00A7
      <<"U+00A7">>,
      \* NOOP / IMM R1 U+00A75 / NOOP
      <<"N", "O", "O", "P", "\n", "I", "M", "M", " ", "R", "1", " ", "U+00A7", "5",
        "\n", "N", "O", "O", "P">>,
      \* U+00A7: NOOP ; U+00A7 / JMP U+00A7
      <<"U+00A7", ":", " ", "N", "O", "O", "P", " ", ";", " ", "U+00A7", "\n",
        "J", "M", "P", " ", "U+00A7">>,
      \* NOOP / JMP LU+00A7 / LU+00A7: NOOP
      <<"N", "O", "O", "P", "\n", "J", "M", "P", " ", "L", "U+00A7", "\n",
        "L", "U+00A7", ":", " ", "N", "O", "O", "P">>,
      \* (empty)
      <<>>,
      \* (two empty lines)
      <<"\n", "\n">> }

\* writer / reader
HazardSource(x, y) == Source(<<x, y>>)

\* writer / gap / reader
GapSource(x, g, y) == Source(<<x, g, y>>)
GapWriters ==
    { <<"I", "M", "M", " ", "R", "1", " ", "5">>,
      <<"A", "D", "D", " ", "R", "1", " ", "R", "2">>,
      <<"X", "A", "D", "D", " ", "R", "1">> }
GapReaders ==
    { <<"A", "D", "D", " ", "R", "2", " ", "R", "1">>,
      <<"M", "O", "V", " ", "R", "2", " ", "R", "1">>,
      <<"X", "A", "D", "D", " ", "R", "2", " ", "R", "1">>,
      <<"P", "U", "S", "H", " ", "R", "1">> }

\* pre / L: NOOP / JMP L, with the label on its own line when own_line
\* and the JMP first when ref_first.
LabelSource(pre, own_line, ref_first) ==
    LET jmp == <<"J", "M", "P", " ", "L">>
        target == IF own_line
                  THEN <<<<"L", ":">>, <<"N", "O", "O", "P">>>>
                  ELSE <<<<"L", ":", " ", "N", "O", "O", "P">>>>
    IN Source((IF ref_first THEN <<jmp>> ELSE <<>>) \o <<pre>> \o target
              \o (IF ref_first THEN <<>> ELSE <<jmp>>))

Sources ==
    {HazardSource(x, y) : x \in HazardLines, y \in HazardLines}
    \cup {GapSource(x, g, y) : x \in GapWriters, g \in GapLines, y \in GapReaders}
    \cup {LabelSource(pre, o, f) : pre \in PreLines, o \in BOOLEAN, f \in BOOLEAN}
    \cup MiscSources

\* The texts load_program is called with.
ReloadSources ==
    { <<"I", "M", "M", " ", "R", "1", " ", "5", "\n",
        "A", "D", "D", " ", "R", "2", " ", "R", "1">>,
      <<"F", "O", "O", "\n", "I", "N", "P", " ", "R", "3">> }

(***************************************************************************)
(* The emulator's operations                                               *)
(***************************************************************************)
\* Emulator::new(code)
Init ==
    /\ instructions \in Programs
    /\ pc = 0
    /\ sp = 15
    /\ fetch_reg = Instruction_none
    /\ decode_reg = Instruction_none
    /\ execute_reg = Instruction_none
    /\ writeback_reg = Instruction_none
    /\ regs = Registers_new
    /\ next_regs = Registers_new
    /\ accumulator = 0
    /\ flags = AluFlags_new
    /\ ports_out = [i \in 0..(NumPorts - 1) |-> 0]
    /\ ram = [i \in 0..(RamSize - 1) |-> 0]
    /\ waiting_for_input = FALSE
    /\ input_register = 0
    /\ errors = <<>>
    /\ warnings = diagnose(instructions, 1)
    /\ panicked = FALSE
    /\ ticks = 0
    /\ code = <<>>

\* Emulator::new(code) for a source text of Sources.  When Parser::parse
\* panics, the fields are those load_program had cleared before the call.
SourceInit ==
    /\ code \in Sources
    /\ \E p \in {parsed(code)} :
          /\ instructions = p.instructions
          /\ errors = p.errors
          /\ warnings = p.warnings
          /\ panicked = p.panicked
    /\ pc = 0
    /\ sp = 15
    /\ fetch_reg = Instruction_none
    /\ decode_reg = Instruction_none
    /\ execute_reg = Instruction_none
    /\ writeback_reg = Instruction_none
    /\ regs = Registers_new
    /\ next_regs = Registers_new
    /\ accumulator = 0
    /\ flags = AluFlags_new
    /\ ports_out = [i \in 0..(NumPorts - 1) |-> 0]
    /\ ram = [i \in 0..(RamSize - 1) |-> 0]
    /\ waiting_for_input = FALSE
    /\ input_register = 0
    /\ ticks = 0

\* clock without the early return on waiting_for_input.
clock_ignores_wait ==
    /\ ~panicked
    /\ ticks < Len(instructions) + MaxDrainTicks
    /\ \E m \in clock_outcomes(Machine, instructions) : Becomes(m)
    /\ ticks' = ticks + 1
    /\ UNCHANGED <<instructions, errors, warnings, code>>

\* clock with the RET patch written into the stream instead of into the
\* execute latch's clone only.
clock_patches_stream ==
    /\ ~panicked
    /\ IF waiting_for_input
       THEN UNCHANGED vars
       ELSE /\ ticks < Len(instructions) + MaxDrainTicks
            /\ \E m \in clock_outcomes(Machine, instructions) :
                  /\ Becomes(m)
                  /\ instructions' =
                        IF m.execute_reg.operation = "RET"
                        THEN [instructions EXCEPT ![m.execute_reg.address + 1] = m.execute_reg]
                        ELSE instructions
            /\ ticks' = ticks + 1
            /\ UNCHANGED <<errors, warnings, code>>

\* Emulator::clock
clock ==
    /\ ~panicked
    /\ IF waiting_for_input
       THEN UNCHANGED vars
       ELSE /\ ticks < Len(instructions) + MaxDrainTicks
            /\ \E m \in clock_outcomes(Machine, instructions) : Becomes(m)
            /\ ticks' = ticks + 1
            /\ UNCHANGED <<instructions, errors, warnings, code>>

\* resolve_input that stores the value but leaves the wait flag set.
resolve_input_keeps_waiting(val) ==
    /\ ~panicked
    /\ IF waiting_for_input
       THEN /\ accumulator' = AndFF(val)
            /\ UNCHANGED <<instructions, pc, sp, fetch_reg, decode_reg, execute_reg,
                           writeback_reg, regs, next_regs, flags, ports_out, ram,
                           waiting_for_input, input_register, errors, warnings,
                           panicked, ticks, code>>
       ELSE UNCHANGED vars

\* Emulator::resolve_input(val)
resolve_input(val) ==
    /\ ~panicked
    /\ IF waiting_for_input
       THEN /\ accumulator' = AndFF(val)
            /\ waiting_for_input' = FALSE
            /\ UNCHANGED <<instructions, pc, sp, fetch_reg, decode_reg, execute_reg,
                           writeback_reg, regs, next_regs, flags, ports_out, ram,
                           input_register, errors, warnings, panicked, ticks, code>>
       ELSE UNCHANGED vars

\* Emulator::load_program(code), code parsing to the stream `instrs`
load_program(instrs) ==
    /\ ~panicked
    /\ instructions' = instrs
    /\ errors' = <<>>
    /\ warnings' = diagnose(instrs, 1)
    /\ Becomes(reset_state(input_register))
    /\ ticks' = 0
    /\ code' = <<>>

\* Emulator::load_program(code) for the source text `text`
load_program_source(text) ==
    /\ ~panicked
    /\ \E p \in {parsed(text)} :
          /\ instructions' = p.instructions
          /\ errors' = p.errors
          /\ warnings' = p.warnings
          /\ Becomes([reset_state(input_register) EXCEPT !.panicked = p.panicked])
    /\ ticks' = 0
    /\ code' = text

Next ==
    \/ clock
    \/ \E val \in InputValues : resolve_input(val)
    \/ \E instrs \in ReloadPrograms : load_program(instrs)

Spec == Init /\ [][Next]_vars

SourceNext ==
    \/ clock
    \/ \E val \in InputValues : resolve_input(val)
    \/ \E text \in ReloadSources : load_program_source(text)

\* The emulator started from, and reloaded with, source text.
SourceSpec == SourceInit /\ [][SourceNext]_vars

(***************************************************************************)
(* Properties                                                              *)
(***************************************************************************)
\* A step of an unblocked clock call: the only step that advances ticks.
ClockStep == ticks' = ticks + 1

ZeroRegPrograms == {ZeroRegProgram(w) : w \in ZeroRegWriters}

\* C1: in every reachable state the stack pointer is in 0..15.
C1_SpInRange == sp >= 0 /\ sp <= 15

\* C1 witness: a POP has just wrapped sp from 15 to 0, after a PUSH at sp = 0
\* stored its value in ram[0] and wrapped sp from 0 to 15.
C1_Witness ==
    /\ writeback_reg.operation = "POP"
    /\ writeback_reg.a.data = 7
    /\ sp = 0
    /\ ram[0] = 170
    /\ regs[7] = 170

\* C2: in every reachable state the program counter is in 0..254, whatever
\* the branch targets are.
C2_PcInRange == pc >= 0 /\ pc <= 254

\* C3: register 0 always reads as 0, and a write aimed at register 0 changes
\* no register: slot 0 of the register file is never written, and in the
\* programs that settle R1 = 5 and then aim a non-zero value at register 0
\* the only register that is ever non-zero is R1.
C3_RegisterZero ==
    /\ read(regs, 0) = 0
    /\ regs[0] = 0
    /\ next_regs[0] = 0
    /\ instructions \in ZeroRegPrograms =>
          \/ regs = Registers_new
          \/ regs = [Registers_new EXCEPT ![1] = 5]

\* C3 witness: NOT R0 R1 with R1 = 5 has been written back: the value 250
\* was aimed at register 0.
C3_Witness ==
    /\ instructions \in ZeroRegPrograms
    /\ writeback_reg.operation = "NOT"
    /\ writeback_reg.a.data = 0
    /\ accumulator = 250
    /\ regs[1] = 5

\* An OUT, STORE or LOAD whose port index or RAM address is out of range.
OutOfRangeAccess(i) ==
    \/ i.operation = "OUT" /\ ~(i.a.data >= 0 /\ i.a.data <= 7)
    \/ i.operation = "STORE" /\ ~(i.a.data >= 0 /\ i.a.data <= 15)
    \/ i.operation = "LOAD" /\ ~(i.b.data >= 0 /\ i.b.data <= 15)

\* C4: the tick that writes back an OUT, STORE or LOAD whose index is out of
\* range (above the range or negative) leaves ports, RAM and registers
\* unchanged and completes without a crash.
C4_OutOfRangeIsNoOp ==
    [][(ClockStep /\ OutOfRangeAccess(execute_reg)) =>
          /\ ports_out' = ports_out
          /\ ram' = ram
          /\ regs' = regs
          /\ ~panicked']_vars

\* C5: while waiting_for_input stays true no step changes pc, sp, the
\* registers, the accumulator, the flags, RAM, the ports or the latches.
C5_BlockedClockIsNoOp ==
    [][(waiting_for_input /\ waiting_for_input') =>
          UNCHANGED <<pc, sp, regs, next_regs, accumulator, flags, ram, ports_out,
                      fetch_reg, decode_reg, execute_reg, writeback_reg>>]_vars

\* C5 witness: an INP has been executed and the emulator waits for its input,
\* with an instruction behind it in the pipeline.
C5_Witness ==
    /\ waiting_for_input
    /\ execute_reg.operation = "INP"
    /\ decode_reg.operation = "NOT"
    /\ ~panicked

\* C6: the tick that executes an INP sets waiting_for_input; resolve_input(v)
\* while waiting clears the wait and leaves v mod 256 in the accumulator;
\* the next tick writes the accumulator into the INP's register r (r in 1..7).
C6_InputDelivered ==
    [][/\ (ClockStep /\ ~panicked' /\ decode_reg.operation = "INP") =>
              (waiting_for_input' /\ execute_reg' = decode_reg)
       /\ \A v \in InputValues :
              (waiting_for_input /\ resolve_input(v)) =>
                  (~waiting_for_input' /\ accumulator' = v % 256)
       /\ (ClockStep /\ execute_reg.operation = "INP"
                     /\ execute_reg.a.data \in 1..7) =>
              (/\ writeback_reg' = execute_reg
               /\ regs'[execute_reg.a.data] = accumulator
               /\ accumulator \in {v % 256 : v \in InputValues})]_vars

\* C6 witness: INP R3 was resolved with 42 and written back: R3 = 42.
C6_Witness ==
    /\ instructions = InpProgram(<<>>, 3, <<>>)
    /\ writeback_reg.operation = "INP"
    /\ writeback_reg.a.data = 3
    /\ ~waiting_for_input
    /\ regs[3] = 42

\* The program is IMM Rr v followed by four NOOPs, r in 1..7, v a byte.
IsImmProgram ==
    /\ Len(instructions) = 5
    /\ instructions = ImmProgram(instructions[1].a.data, instructions[1].b.data)
    /\ instructions[1].a.data \in 1..7
    /\ instructions[1].b.data \in 0..255

\* C7: in the program IMM Rr v / NOOP x 4 (r in 1..7, v a byte) register r
\* reads v from the end of the fourth tick on, the tick in which the IMM is
\* in writeback, and 0 before it.
C7_ImmVisibleAfterFourTicks ==
    IsImmProgram =>
        LET r == instructions[1].a.data
            v == instructions[1].b.data
        IN /\ ticks >= 4 => read(regs, r) = v
           /\ ticks < 4 => read(regs, r) = 0
           /\ writeback_reg.address = 0 <=> ticks = 4

\* C7 witness: IMM R7 255 is in the writeback latch and R7 reads 255.
C7_Witness ==
    /\ IsImmProgram
    /\ writeback_reg = instructions[1]
    /\ instructions[1].a.data = 7
    /\ ticks = 4
    /\ read(regs, 7) = 255

\* The program is IMM Rr v / NOOP x 3 / STORE #a Rr / NOOP x gap /
\* LOAD Rk #a / NOOP with a in 0..15, r and k in 1..7 and v a byte.
IsStoreLoadProgram(gap) ==
    /\ Len(instructions) = 7 + gap
    /\ instructions = StoreLoadProgram(instructions[5].a.data, instructions[1].a.data,
                                       instructions[6 + gap].a.data,
                                       instructions[1].b.data, gap)
    /\ instructions[5].a.data \in 0..15
    /\ instructions[1].a.data \in 1..7
    /\ instructions[6 + gap].a.data \in 1..7
    /\ instructions[1].b.data \in 0..255

\* C8: with v settled in Rr, STORE #a Rr followed (at once or after a NOOP)
\* by LOAD Rk #a leaves Rk = v from the LOAD's writeback on (a in 0..15,
\* k in 1..7), and ram[a] = v from the STORE's writeback on.
C8_StoreThenLoad ==
    \A gap \in Gaps :
        IsStoreLoadProgram(gap) =>
            LET a == instructions[5].a.data
                k == instructions[6 + gap].a.data
                v == instructions[1].b.data
            IN /\ ticks >= 8 => ram[a] = v
               /\ ticks >= 9 + gap => read(regs, k) = v
               /\ ~panicked

\* C8 witness: STORE #15 R1 then LOAD R7 #15 with R1 = 170: R7 reads 170.
C8_Witness ==
    /\ IsStoreLoadProgram(0)
    /\ writeback_reg.operation = "LOAD"
    /\ writeback_reg.a.data = 7
    /\ writeback_reg.b.data = 15
    /\ instructions[1].a.data = 1
    /\ ram[15] = 170
    /\ read(regs, 7) = 170

\* The program is PushPopProgram(sp0, a, b, v, gap), a and b in 1..7, v a byte.
IsPushPopProgram(sp0, gap) ==
    /\ Len(instructions) = PopIndex(sp0, gap) + 2
    /\ instructions = PushPopProgram(sp0, instructions[1].a.data,
                                     instructions[PopIndex(sp0, gap) + 1].a.data,
                                     instructions[1].b.data, gap)
    /\ instructions[1].a.data \in 1..7
    /\ instructions[PopIndex(sp0, gap) + 1].a.data \in 1..7
    /\ instructions[1].b.data \in 0..255

\* C9: for every starting sp0 in 0..15, with v settled in Ra, PUSH Ra followed
\* (at once or after a NOOP) by POP Rb leaves Rb = v and sp = sp0, the value
\* sp had before the PUSH; the PUSH itself takes sp to sp0 - 1 modulo 16.
C9_PushThenPop ==
    \A sp0 \in StackPointers, gap \in Gaps :
        IsPushPopProgram(sp0, gap) =>
            LET b == instructions[PopIndex(sp0, gap) + 1].a.data
                v == instructions[1].b.data
            IN /\ ticks = PushIndex(sp0) + 3 => sp = sp0
               /\ ticks = PushIndex(sp0) + 4 =>
                     (sp = (sp0 + 15) % 16 /\ ram[sp0] = v
                      /\ writeback_reg.operation = "PUSH")
               /\ ticks >= PopIndex(sp0, gap) + 4 =>
                     (read(regs, b) = v /\ sp = sp0)

\* C9 witness: starting at sp = 0 the PUSH wrapped sp to 15 and the POP
\* wrapped it back to 0, and R7 holds the pushed 255.
C9_Witness ==
    /\ IsPushPopProgram(0, 0)
    /\ writeback_reg.operation = "POP"
    /\ writeback_reg.a.data = 7
    /\ ticks = PopIndex(0, 0) + 4
    /\ sp = 0
    /\ read(regs, 7) = 255

CallSps == {15, 14, 0}
CallPads == 0..2

\* The program is CallRetProgram(sp0, k, body).
IsCallRetProgram(sp0, k, body) ==
    /\ Len(instructions) = Len(SpPrefix(sp0)) + k + 4 + Len(body)
    /\ instructions = CallRetProgram(sp0, k, body)

\* C10: for a CALL at address c whose subroutine has balanced stack use, in
\* the state after the RET's execute tick the fetch latch holds the
\* instruction at address c + 1, the RET's target is c + 1 and sp is back at
\* its value before the CALL; once the caller's IMM R1 9 is written back,
\* R1 = 9, R2 = 4 when the subroutine ran IMM R2 4, and sp is that value (15 in
\* the call/ret scenario).
C10_CallThenRet ==
    \A sp0 \in CallSps, k \in CallPads, body \in CallBodies :
        IsCallRetProgram(sp0, k, body) =>
            LET c == CallIndex(sp0, k)
            IN /\ execute_reg.operation = "RET" =>
                     /\ fetch_reg = instructions[c + 2]
                     /\ execute_reg.a.data = c + 1
                     /\ pc = c + 2
                     /\ sp = sp0
               /\ writeback_reg.operation = "CALL" =>
                     (sp = (sp0 + 15) % 16 /\ ram[sp0] = c + 1)
               /\ read(regs, 1) = 9 =>
                     /\ sp = sp0
                     /\ body # <<>> => read(regs, 2) = 4
               /\ ticks >= c + 10 + Len(body) => read(regs, 1) = 9

\* C10 witness: the call/ret scenario (CALL SUB / IMM R1 9 / HALT: JMP HALT /
\* SUB: IMM R2 4 / RET) after the caller's IMM: R2 = 4, R1 = 9, sp = 15.
C10_Witness ==
    /\ IsCallRetProgram(15, 0, <<Op2("IMM", "None", Reg(2), Imm(4))>>)
    /\ read(regs, 1) = 9
    /\ read(regs, 2) = 4
    /\ sp = 15
    /\ ram[15] = 1

(***************************************************************************)
(* Properties of the assembler (SourceSpec)                                *)
(***************************************************************************)
\* The lines of the text last parsed.
SourceLines == text_lines(code)

\* The line declares a label: its cleaned text has a ':' and the text
\* before it has no space.
DeclaresLabel(i) ==
    /\ contains(clean_line(SourceLines[i]), ":")
    /\ ~contains(SubSeq(clean_line(SourceLines[i]), 1,
                        find(clean_line(SourceLines[i]), ":") - 1), " ")

\* The label line i declares.
LabelAt(i) ==
    SubSeq(clean_line(SourceLines[i]), 1, find(clean_line(SourceLines[i]), ":") - 1)

\* The lines that declare label t.
DeclaringLines(t) ==
    {i \in 1..Len(SourceLines) : DeclaresLabel(i) /\ LabelAt(i) = t}

\* The operand token t is a reference to a label: it is declared once, it
\* carries no operand sigil and it is not a number.
IsLabelReference(t) ==
    /\ Cardinality(DeclaringLines(t)) = 1
    /\ Head(t) \notin {"#", "@", "%"}
    /\ ~(Head(t) \in {"R", "$"} /\ parse_binary(Tail(t)).ok)
    /\ ~parse_binary(t).ok

\* The stream index of the first instruction emitted at or after line i:
\* the number of instructions emitted from the lines before it.
StreamIndexAt(i) ==
    Cardinality({k \in 1..Len(instructions) : instructions[k].source_line < i})

\* What a reference to label t has to resolve to.
LabelTarget(t) ==
    Operand_new("Immediate", StreamIndexAt(CHOOSE i \in DeclaringLines(t) : TRUE))

\* The tokens of the line instruction k was emitted from.
TokensOf(k) ==
    split_whitespace(instruction_text(SourceLines[instructions[k].source_line]))

\* C11: every reference to a label, in operand A or operand B of an
\* emitted instruction, is the Immediate whose value is the stream index
\* of the first instruction emitted at or after the label's line; this
\* for every source text, also one with lines that fail to parse.
C11_LabelsResolve ==
    \A k \in 1..Len(instructions) :
        LET toks == TokensOf(k)
            needed == get_needed_operands(instructions[k].operation, instructions[k].args)
            pos_b == IF needed[1] THEN 3 ELSE 2
        IN /\ (needed[1] /\ Len(toks) >= 2 /\ IsLabelReference(toks[2]))
                => instructions[k].a = LabelTarget(toks[2])
           /\ (needed[2] /\ Len(toks) >= pos_b /\ IsLabelReference(toks[pos_b]))
                => instructions[k].b = LabelTarget(toks[pos_b])

\* The writer table: the registers an instruction writes.
WrittenRegisters(instr) ==
    IF /\ instr.a.type_ = "Register"
       /\ \/ instr.operation \in {"IMM", "MOV", "LOAD", "POP", "INP", "SHR", "NOT"}
          \/ /\ instr.operation \in {"ADD", "ADDC", "SUB", "AND", "OR", "XOR"}
             /\ instr.args /= "X"
    THEN {instr.a.data} ELSE {}

\* The reader tables: the registers an instruction reads, through operand
\* A and through operand B.
ReadRegisters(instr) ==
    (IF /\ instr.a.type_ = "Register"
        /\ \/ /\ instr.operation \in {"ADD", "ADDC", "SUB", "AND", "OR", "XOR"}
              /\ instr.args \notin {"U", "X"}
           \/ instr.operation \in {"PUSH", "ROUT"}
     THEN {instr.a.data} ELSE {})
    \cup
    (IF /\ instr.b.type_ = "Register"
        /\ instr.operation \in {"MOV", "ADD", "ADDC", "SUB", "AND", "OR", "XOR",
                                "SHR", "NOT", "OUT", "ROUT", "STORE"}
     THEN {instr.b.data} ELSE {})

\* The positions in `warnings` of the RAW hazard warnings for line n.
RawWarningsAt(n) ==
    {j \in 1..Len(warnings) : warnings[j].msg = "RAW Hazard" /\ warnings[j].line = n}

\* Instruction k reads the register the instruction emitted before it writes.
HasRawHazard(k) ==
    k > 1 /\ WrittenRegisters(instructions[k - 1]) \cap ReadRegisters(instructions[k]) /= {}

\* IMM R1 5 / ADD R2 R1
HazardText ==
    <<"I", "M", "M", " ", "R", "1", " ", "5", "\n",
      "A", "D", "D", " ", "R", "2", " ", "R", "1">>
\* IMM R1 5 / NOOP / ADD R2 R1
SpacedText ==
    <<"I", "M", "M", " ", "R", "1", " ", "5", "\n", "N", "O", "O", "P", "\n",
      "A", "D", "D", " ", "R", "2", " ", "R", "1">>
\* IMM R1 5 / XADD R2 R1
AccumulatorText ==
    <<"I", "M", "M", " ", "R", "1", " ", "5", "\n",
      "X", "A", "D", "D", " ", "R", "2", " ", "R", "1">>

\* C12: an emitted instruction has a RAW hazard warning exactly when the
\* register written by the instruction emitted just before it (writer
\* table) is one it reads (reader tables); then it has one such warning,
\* naming that register, on its line; and no other line has one.  IMM R1 5
\* / ADD R2 R1 gives the single warning for R1 on line 2 and no error;
\* IMM R1 5 / NOOP / ADD R2 R1 and IMM R1 5 / XADD R2 R1 give none.
C12_RawHazardWarning ==
    /\ \A k \in 1..Len(instructions) :
          IF HasRawHazard(k)
          THEN /\ Cardinality(RawWarningsAt(instructions[k].source_line)) = 1
               /\ \A j \in RawWarningsAt(instructions[k].source_line) :
                     warnings[j].args = <<instructions[k - 1].a.data>>
          ELSE RawWarningsAt(instructions[k].source_line) = {}
    /\ \A j \in 1..Len(warnings) :
          warnings[j].msg = "RAW Hazard"
            => \E k \in 1..Len(instructions) : instructions[k].source_line = warnings[j].line
    /\ code = HazardText
          => warnings = <<Diagnostic(2, "RAW Hazard", <<1>>)>> /\ errors = <<>>
    /\ code \in {SpacedText, AccumulatorText}
          => \A j \in 1..Len(warnings) : warnings[j].msg /= "RAW Hazard"

\* C12 witness: the text IMM R1 5 / ADD R2 R1 was parsed, and its warnings
\* hold a RAW hazard warning.
C12_Witness ==
    /\ code = HazardText
    /\ Len(instructions) = 2
    /\ \E j \in 1..Len(warnings) : warnings[j].msg = "RAW Hazard"

\* Line i carries instruction text: something is left of it once the
\* comment, the label and the surrounding whitespace are taken away.
HasInstructionText(i) == instruction_text(SourceLines[i]) /= <<>>

\* The positions of the instructions emitted from line i, and of the
\* errors tagged with line i.
InstructionsAt(i) == {k \in 1..Len(instructions) : instructions[k].source_line = i}
ErrorsAt(i) == {j \in 1..Len(errors) : errors[j].line = i}

\* C13: a line with instruction text gives one instruction or one error
\* tagged with its 1-based number, never both and never more; a line
\* without gives neither; this holds for the lines after a failing line
\* too; and the emitted instructions are in the order of their lines.
C13_ErrorsCollected ==
    /\ \A i \in 1..Len(SourceLines) :
          IF HasInstructionText(i)
          THEN Cardinality(InstructionsAt(i)) + Cardinality(ErrorsAt(i)) = 1
          ELSE InstructionsAt(i) = {} /\ ErrorsAt(i) = {}
    /\ \A k \in 1..Len(instructions) : instructions[k].source_line \in 1..Len(SourceLines)
    /\ \A j \in 1..Len(errors) : errors[j].line \in 1..Len(SourceLines)
    /\ \A k \in 1..(Len(instructions) - 1) :
          instructions[k].source_line < instructions[k + 1].source_line

(***************************************************************************)
(* Properties of the emulator, continued                                   *)
(***************************************************************************)
\* The runtime fields, all but input_register, are those of Emulator::new.
FreshRuntime ==
    /\ pc = 0
    /\ sp = 15
    /\ fetch_reg = Instruction_none
    /\ decode_reg = Instruction_none
    /\ execute_reg = Instruction_none
    /\ writeback_reg = Instruction_none
    /\ regs = Registers_new
    /\ next_regs = Registers_new
    /\ accumulator = 0
    /\ flags = AluFlags_new
    /\ ports_out = [i \in 0..(NumPorts - 1) |-> 0]
    /\ ram = [i \in 0..(RamSize - 1) |-> 0]
    /\ waiting_for_input = FALSE

\* The fields Parser::parse fills are those of the text last loaded.
FreshProgram ==
    /\ instructions = parsed(code).instructions
    /\ errors = parsed(code).errors
    /\ warnings = parsed(code).warnings
    /\ panicked = parsed(code).panicked

\* C14: whenever no tick has run since the last load_program(source), the
\* emulator is in the state Emulator::new(source) returns: every runtime
\* field is reset, the input wait (waiting_for_input and input_register)
\* included, in whatever state load_program was called.  (ticks = 0 holds
\* exactly after Emulator::new and after load_program, until the next
\* unblocked clock call.)
C14_LoadEqualsNew ==
    ticks = 0 => FreshProgram /\ FreshRuntime /\ input_register = 0

\* C15: a clock call and a resolve_input call change neither errors nor
\* warnings nor any instruction of the stream; the RET patch reaches the
\* execute latch's copy only.  (A step that does not end with ticks = 0 is
\* a step of clock or resolve_input: load_program alone resets ticks.)
C15_ParseOutputsFrozen ==
    [][ticks' /= 0 =>
          instructions' = instructions /\ errors' = errors /\ warnings' = warnings]_vars

\* C15 witness: a RET is in the execute latch with the return address 1
\* patched into its operand A, while the RET of the stream still has the
\* operand the parser gave it, Immediate 0.
C15_Witness ==
    /\ execute_reg.operation = "RET"
    /\ execute_reg.a.data = 1
    /\ instructions[execute_reg.address + 1].operation = "RET"
    /\ instructions[execute_reg.address + 1].a.data = 0
    /\ ~panicked

\* The settled value of register r: what the register file holds for it
\* when the tick begins (register 0 and indices outside 1..7 read as 0).
SettledValue(r) == IF r \in 1..7 THEN regs[r] ELSE 0

\* C16: a tick that writes back an operation other than OUT and ROUT
\* leaves the eight ports as they were, and so does a resolve_input call
\* (the step out of a wait that is not a tick); a tick that writes back
\* OUT %p Rb with p in 0..7 sets port p to the settled value of Rb and
\* leaves the other ports alone; after IMM R1 170 / NOOP x 3 / OUT %3 R1
\* has been written back (tick 8), port 3 holds 170.
C16_PortsWrittenByOutOnly ==
    [][/\ (ClockStep /\ writeback_reg'.operation \notin {"OUT", "ROUT"})
            => ports_out' = ports_out
       /\ (waiting_for_input /\ ticks' = ticks)
            => ports_out' = ports_out
       /\ (/\ ClockStep
           /\ writeback_reg'.operation = "OUT"
           /\ writeback_reg'.a.type_ = "Port"
           /\ writeback_reg'.a.data \in 0..7
           /\ writeback_reg'.b.type_ = "Register")
            => ports_out' = [ports_out EXCEPT ![writeback_reg'.a.data] =
                                                SettledValue(writeback_reg'.b.data)]
       /\ (ClockStep /\ instructions = OutProgram(3, 1, 170) /\ ticks' = 8)
            => ports_out'[3] = 170]_vars

\* C16 witness: OUT %3 R1 of IMM R1 170 / NOOP x 3 / OUT %3 R1 / NOOP has
\* been written back: port 3 holds 170 and the other ports hold 0.
C16_Witness ==
    /\ instructions = OutProgram(3, 1, 170)
    /\ writeback_reg.operation = "OUT"
    /\ ticks = 8
    /\ ports_out = [i \in 0..7 |-> IF i = 3 THEN 170 ELSE 0]

\* IMM Rr v / NOOP x 4 with r in 1..7 and any literal v.
IsWrappingImmProgram ==
    /\ Len(instructions) = 5
    /\ instructions = ImmProgram(instructions[1].a.data, instructions[1].b.data)
    /\ instructions[1].a.data \in 1..7

\* IMM R1 x / IMM R2 y / NOOP x 3 / ADD R1 R2 / NOOP
IsAddProgram ==
    /\ Len(instructions) = 7
    /\ instructions = AluProgram("ADD", "None", instructions[1].b.data, instructions[2].b.data)

\* C17: every register, the accumulator, every RAM byte and every port
\* holds a value in 0..255.  An immediate outside the range is wrapped
\* modulo 256 when IMM writes it (tick 4); the ALU result is masked to
\* eight bits (the ADD at address 5 executes in tick 8); the return
\* address CALL stores is (address + 1) mod 256 (the CALL at address 256
\* is written back in tick 7 and stores 1 at ram[15]).
C17_ByteRange ==
    /\ \A i \in 0..(NumRegs - 1) : regs[i] \in 0..255 /\ next_regs[i] \in 0..255
    /\ accumulator \in 0..255
    /\ \A i \in 0..(RamSize - 1) : ram[i] \in 0..255
    /\ \A i \in 0..(NumPorts - 1) : ports_out[i] \in 0..255
    /\ (IsWrappingImmProgram /\ ticks >= 4)
         => regs[instructions[1].a.data] = instructions[1].b.data % 256
    /\ (IsAddProgram /\ ticks >= 8)
         => accumulator = (instructions[1].b.data + instructions[2].b.data) % 256
    /\ (instructions = FarCallProgram /\ ticks >= 7) => ram[15] = 1

\* C17 witness: IMM R7 -1 has put 255 into R7.
C17_Witness ==
    /\ instructions = ImmProgram(7, -1)
    /\ ticks >= 4
    /\ regs[7] = 255

\* The conditional branch operations and the flag each one tests.
ConditionalBranches == {"BIE", "BIG", "BIL", "BIO"}
FlagOf(op, fl) ==
    CASE op = "BIE" -> fl.equals
      [] op = "BIG" -> fl.greater
      [] op = "BIL" -> fl.less
      [] op = "BIO" -> fl.overflow

\* The instruction a fetch at address t yields, and the pc after it.
FetchedAt(t) ==
    IF t >= 0 /\ t < Len(instructions) THEN instructions[t + 1] ELSE Instruction_none
PcAfter(t) == IF t + 1 >= PcLimit THEN 0 ELSE t + 1

\* This tick executes a conditional branch: the instruction in the decode
\* latch moves to the execute latch and the tick completes.
ExecutesConditionalBranch ==
    /\ ClockStep
    /\ ~panicked'
    /\ decode_reg.operation \in ConditionalBranches

\* The tick redirected the pipeline to address t: the instruction fetched
\* before it is gone from the latches and the next fetch was made at t.
BranchTakenTo(t) ==
    /\ decode_reg' = Instruction_none
    /\ fetch_reg' = FetchedAt(t)
    /\ pc' = PcAfter(t)

\* The tick left pc and the fetch latch to the fetch and decode stages: the
\* instruction fetched before it moves on and the next fetch is made at pc.
BranchFallsThrough ==
    /\ decode_reg' = fetch_reg
    /\ fetch_reg' = FetchedAt(pc)
    /\ pc' = PcAfter(pc)

BranchScenario(x, y) == instructions = BranchScenarioProgram("BIE", x, y)
BranchScenarioEqual == \E xy \in AluPairs : xy[1] = xy[2] /\ BranchScenario(xy[1], xy[2])
BranchScenarioUnequal == \E xy \in AluPairs : xy[1] /= xy[2] /\ BranchScenario(xy[1], xy[2])

\* C18: a conditional branch is taken exactly when its flag, as the most
\* recently executed ALU operation left it, is set: a tick that executes
\* BIE, BIG, BIL or BIO with the flag set redirects the pipeline to the
\* target, and with the flag clear it changes neither pc nor the fetch latch.
\* In IMM R1 x / IMM R2 y / NOOP x 3 / SUB R1 R2 / BIE 9 / IMM R3 1 / JMP 8 /
\* IMM R4 1 / JMP 10 with x = y, the SUB leaves equals set, the BIE executes
\* in tick 9, the instruction at address 9 is the next one executed (tick 11,
\* R4 == 1 from tick 12) and the fall-through instruction at address 7 is
\* never executed (R3 stays 0); with x /= y the fall-through instruction is
\* executed in tick 10 (R3 == 1 from tick 11) and the instruction at the
\* target never is (R4 stays 0).
C18_ConditionalBranch ==
    [][ /\ ExecutesConditionalBranch =>
            /\ execute_reg' = decode_reg
            /\ flags' = flags
            /\ IF FlagOf(decode_reg.operation, flags)
               THEN BranchTakenTo(decode_reg.a.data)
               ELSE BranchFallsThrough
        /\ (BranchScenarioEqual /\ ClockStep) =>
            /\ ticks' = 8 => execute_reg'.operation = "SUB" /\ flags'.equals
            /\ ticks' = 9 => execute_reg'.operation = "BIE"
            /\ ticks' = 10 => execute_reg' = Instruction_none
            /\ ticks' = 11 => execute_reg' = instructions[10]
            /\ execute_reg'.address /= 7
            /\ regs'[3] = 0
            /\ ticks' >= 12 => regs'[4] = 1
        /\ (BranchScenarioUnequal /\ ClockStep) =>
            /\ ticks' = 8 => execute_reg'.operation = "SUB" /\ ~flags'.equals
            /\ ticks' = 9 => execute_reg'.operation = "BIE"
            /\ ticks' = 10 => execute_reg' = instructions[8]
            /\ execute_reg'.address /= 9
            /\ regs'[4] = 0
            /\ ticks' >= 11 => regs'[3] = 1
      ]_vars

C18_Witness ==
    /\ instructions = BranchScenarioProgram("BIE", 5, 5)
    /\ ticks = 12
    /\ execute_reg.operation = "JMP"
    /\ regs[4] = 1
    /\ regs[3] = 0

\* The stream is IMM Ra x / IMM Rb y / NOOP x 3 / ADD Ra Rb / NOOP.
IsAddProgramOf(a, b, x, y) == instructions = AddProgram(a, b, x, y)

\* The values Ra and Rb have settled to when the ADD of AddProgram executes:
\* the second IMM overwrites the first when a = b, and register 0 reads 0.
SettledA(a, b, x, y) == IF a = b THEN y ELSE x
SettledB(a, b, x, y) == IF b = 0 THEN 0 ELSE y

\* What ADD Ra Rb leaves for settled operand values x and y: the flags and the
\* accumulator from its execute stage on (tick 8), Ra from its writeback on
\* (tick 9).
AddOutcome(a, x, y) ==
    /\ ticks >= 8 =>
        /\ accumulator = (x + y) % 256
        /\ flags.overflow = (x + y > 255)
        /\ flags.equals = (x = y)
        /\ flags.greater = (x > y)
        /\ flags.less = (x < y)
    /\ ticks >= 9 => regs[a] = (x + y) % 256

\* C19: for ADD Ra Rb (no prefix, a in 1..7) with settled operand values x
\* and y, after its writeback Ra == (x + y) mod 256 and accumulator ==
\* (x + y) mod 256, overflow == (x + y > 255), and equals, greater and less
\* are x == y, x > y and x < y, computed on the inputs and not on the result;
\* 7 + 5 gives R1 == 12, accumulator == 12, greater true and equals false.
C19_AddResult ==
    /\ \A a \in AddTargets, b \in AddSources, xy \in AluPairs :
          IsAddProgramOf(a, b, xy[1], xy[2]) =>
              AddOutcome(a, SettledA(a, b, xy[1], xy[2]), SettledB(a, b, xy[1], xy[2]))
    /\ (IsAddProgramOf(1, 2, 7, 5) /\ ticks >= 9) =>
          /\ regs[1] = 12
          /\ accumulator = 12
          /\ flags.greater
          /\ ~flags.equals

C19_Witness ==
    /\ IsAddProgramOf(1, 2, 200, 100)
    /\ ticks = 9
    /\ writeback_reg.operation = "ADD"
    /\ regs[1] = 44
    /\ accumulator = 44
    /\ flags.overflow
    /\ flags.greater

\* The value register n holds in HazardProgram before the writer at address
\* 10 takes effect.
ValueBeforeWriter(n) ==
    CASE n = 1 -> 3
      [] n = 2 -> 6
      [] n = 3 -> 12
      [] OTHER -> 0

\* The accumulator an ALU reader r leaves when its register operands hold
\* the values they had before the writer.
ReadsBeforeWriterInExecute(r) ==
    LET a_data == IF r.args = "U" \/ r.args = "X"
                  THEN accumulator
                  ELSE ValueBeforeWriter(r.a.data)
        b_data == ValueBeforeWriter(r.b.data)
    IN accumulator' = AndFF(alu_result(r.operation, a_data, b_data, flags))

\* The register, port or RAM cell a reader r of the writeback stage leaves
\* when its register operands hold the values they had before the writer.
ReadsBeforeWriterInWriteback(r) ==
    CASE r.operation = "MOV" -> regs'[r.a.data] = ValueBeforeWriter(r.b.data)
      [] r.operation = "OUT" -> ports_out'[r.a.data] = ValueBeforeWriter(r.b.data)
      [] r.operation = "ROUT" ->
            ports_out'[ValueBeforeWriter(r.a.data)] = ValueBeforeWriter(r.b.data)
      [] r.operation = "STORE" -> ram'[r.a.data] = ValueBeforeWriter(r.b.data)
      [] r.operation = "PUSH" -> ram'[sp] = ValueBeforeWriter(r.a.data)
      [] OTHER -> TRUE

\* In w / r at addresses 10 and 11 the reader executes in tick 14, the tick
\* the writer is written back, and is written back in tick 15.
ReaderObservesOldValue(r) ==
    /\ (ticks' = 14 /\ is_alu_op(r.operation)) => ReadsBeforeWriterInExecute(r)
    /\ ticks' = 15 => ReadsBeforeWriterInWriteback(r)

\* The ticks in which the reader at address 11 reads its operands.
ReaderTick == ticks' = 14 \/ ticks' = 15

\* C20: a register produced by one instruction is not visible to the
\* instruction immediately after it: for every writer W of R1 from the writer
\* table and every reader R of R1 from the reader tables that immediately
\* follows W, R observes the value R1 held before W (3), not the value W
\* writes.
C20_ReaderSeesOldValue ==
    [][ (ClockStep /\ ReaderTick /\ instructions \in HazardPrograms)
            => ReaderObservesOldValue(instructions[12])
      ]_vars

\* The part of C20 that concerns the readers of the execute stage.
C20_AluReaderSeesOldValue ==
    [][ (ClockStep /\ ReaderTick /\ instructions \in HazardPrograms
            /\ is_alu_op(instructions[12].operation))
            => ReaderObservesOldValue(instructions[12])
      ]_vars

\* The readers of the writeback stage see the value the writer wrote.
C20_WritebackReaderSeesNewValue ==
    /\ instructions = HazardProgram(Op2("IMM", "None", Reg(1), Imm(5)),
                                    Op2("MOV", "None", Reg(2), Reg(1)))
    /\ ticks = 15
    /\ regs[2] = 5

\* The instruction is a branch that is taken under the flags fl.
IsTakenBranch(instr, fl) ==
    \/ instr.operation \in {"JMP", "CALL", "RET"}
    \/ instr.operation \in ConditionalBranches /\ FlagOf(instr.operation, fl)

\* The writeback stage of this tick panics on a negative index, so that the
\* tick never reaches its execute stage.
WritebackPanics ==
    \/ execute_reg.operation \in {"OUT", "STORE"} /\ execute_reg.a.data < 0
    \/ execute_reg.operation = "LOAD" /\ execute_reg.b.data < 0

\* A tick that executes a taken branch: the branch is in the decode latch
\* when the tick starts and the execute stage is reached.
ExecutesTakenBranch ==
    /\ ClockStep
    /\ ~WritebackPanics
    /\ IsTakenBranch(decode_reg, flags)

\* A tick that follows the tick of a taken branch: the branch is in the
\* execute latch when the tick starts (a branch leaves the flags as they
\* were when it was decided).
FollowsTakenBranch ==
    /\ ClockStep
    /\ IsTakenBranch(execute_reg, flags)

\* C21: when a branch at address k is taken (JMP, CALL, RET, or a conditional
\* branch whose flag is set), the instruction already fetched from address
\* k+1 is flushed and never reaches the execute or writeback stage, no other
\* instruction is lost, and the target is fetched in the same tick: after the
\* tick the execute latch holds the branch, the decode latch the sentinel and
\* the fetch latch the instruction at the target, the instruction that was
\* in execute has moved to writeback; after the next tick the writeback latch
\* holds the branch, the execute latch the sentinel and the decode latch the
\* instruction at the target.
C21_BranchFlush ==
    [][ /\ ExecutesTakenBranch =>
            /\ decode_reg.address + 1 < PcLimit
                  => fetch_reg = FetchedAt(decode_reg.address + 1)
            /\ writeback_reg' = execute_reg
            /\ execute_reg'.operation = decode_reg.operation
            /\ execute_reg'.address = decode_reg.address
            /\ decode_reg' = Instruction_none
            /\ fetch_reg' = FetchedAt(execute_reg'.a.data)
        /\ FollowsTakenBranch =>
            /\ writeback_reg' = execute_reg
            /\ execute_reg' = Instruction_none
            /\ decode_reg' = FetchedAt(execute_reg.a.data)
      ]_vars

\* JMP 8 of the branch scenario has been written back: the sentinel is in
\* execute and the JMP, refetched from its own target, in decode.
C21_Witness ==
    /\ instructions = BranchScenarioProgram("BIE", 7, 5)
    /\ ticks = 12
    /\ writeback_reg.operation = "JMP"
    /\ execute_reg = Instruction_none
    /\ decode_reg = instructions[9]
    /\ regs[3] = 1

\* The stream holds no branch and no RET, and is too short for pc to wrap.
StraightLine ==
    /\ Len(instructions) < PcLimit
    /\ \A i \in 1..Len(instructions) :
          instructions[i].operation \notin BranchOperations \cup {"RET"}

\* What the execute latch holds after executing instr: instr itself, for
\* RET with operand A patched to the return address.
ExecutedFrom(latch, instr) ==
    IF instr.operation = "RET"
    THEN [latch EXCEPT !.a.data = instr.a.data] = instr
    ELSE latch = instr

\* C22: counting only ticks in which clock is not blocked, at the end of tick
\* t the writeback latch holds what the execute latch held at the end of tick
\* t-1, the execute latch what the decode latch held (only RET's operand A
\* patched), and the decode latch what the fetch latch held unless a branch
\* taken in tick t flushed it; a step that is no tick (a blocked clock,
\* resolve_input) leaves the four latches alone.  So in a stream without
\* branches the instruction at address i, fetched in tick i+1, is in decode
\* in tick i+2, executed in tick i+3 and written back in tick i+4, input
\* waits included.
C22_LatchesAdvance ==
    [][ /\ (ClockStep /\ ~WritebackPanics) =>
            /\ writeback_reg' = execute_reg
            /\ ExecutedFrom(execute_reg', decode_reg)
            /\ decode_reg' = IF IsTakenBranch(decode_reg, flags)
                             THEN Instruction_none ELSE fetch_reg
        /\ ticks' = ticks =>
            UNCHANGED <<fetch_reg, decode_reg, execute_reg, writeback_reg>>
        /\ (StraightLine /\ ~panicked') =>
            /\ fetch_reg' = FetchedAt(ticks' - 1)
            /\ decode_reg' = FetchedAt(ticks' - 2)
            /\ execute_reg' = FetchedAt(ticks' - 3)
            /\ writeback_reg' = FetchedAt(ticks' - 4)
      ]_vars

\* IMM R1 5 / INP R3 / NOT R2 R0 / NOOP after the wait: the NOT, fetched in
\* tick 3, is written back in tick 6, and R3 holds the input.
C22_Witness ==
    /\ instructions = InpProgram(<<Op2("IMM", "None", Reg(1), Imm(5))>>, 3,
                                 <<Op2("NOT", "None", Reg(2), Reg(0))>>)
    /\ ticks = 6
    /\ writeback_reg = instructions[3]
    /\ regs[3] = 42
    /\ regs[2] = 255

\* The accumulator and flags an arithmetic/logical operation op leaves for
\* the inputs a and b and the overflow flag before it.
AluOutcome(op, a, b, carry) ==
    LET result == alu_result(op, a, b, [overflow |-> carry])
    IN /\ accumulator' = AndFF(result)
       /\ flags' = [equals |-> a = b, greater |-> a > b, less |-> a < b,
                    overflow |-> ~(result >= 0 /\ result <= 255)]

\* C23: ADD, ADDC, SUB, OR, XOR and AND with prefix X take input A from the
\* accumulator, update the accumulator and the flags and write no register
\* (every register is unchanged by the writeback); with prefix U they also
\* take A from the accumulator and write the result into register A.  In
\* IMM R1 x / IMM R2 y / NOOP x 3 / ADD R1 R2 / Uop R3 R2 (or Xop R2) / NOOP
\* the prefixed operation combines (x + y) mod 256 with y; with U the result
\* is in R3 from tick 10 on, with X R3 stays 0.  No source line gives OR
\* with the prefix X (the word XOR is the operation XOR), so the streams
\* carry the prefix X on ADD, ADDC, SUB, XOR and AND only.
C23_PrefixXAndU ==
    [][ /\ (ClockStep /\ ~WritebackPanics /\ decode_reg.operation \in BinaryOps
             /\ decode_reg.args \in {"U", "X"}) =>
            AluOutcome(decode_reg.operation, accumulator,
                       read(regs, decode_reg.b.data), flags.overflow)
        /\ (ClockStep /\ ~panicked' /\ execute_reg.operation \in BinaryOps) =>
            /\ execute_reg.args = "X" => regs' = regs
            /\ execute_reg.args = "U" =>
                  regs' = IF execute_reg.a.data \in 1..7
                          THEN [regs EXCEPT ![execute_reg.a.data] = accumulator]
                          ELSE regs
        /\ (ClockStep /\ ticks' >= 9 /\ instructions \in PrefixPrograms) =>
              LET op == instructions[7].operation
                  args == instructions[7].args
                  y == instructions[2].b.data
                  sum == instructions[1].b.data + y
                  res == AndFF(alu_result(op, sum % 256, y, [overflow |-> sum > 255]))
              IN /\ ticks' = 9 => AluOutcome(op, sum % 256, y, sum > 255)
                 /\ accumulator' = res
                 /\ ticks' >= 10 =>
                       /\ regs'[3] = IF args = "U" THEN res ELSE 0
                       /\ regs'[1] = sum % 256
                       /\ regs'[2] = y
      ]_vars

\* XSUB R2 after 200 + 100: the accumulator holds 44 - 100 mod 256 and no
\* register took it.
C23_Witness ==
    /\ instructions = PrefixProgram("SUB", "X", 200, 100)
    /\ ticks = 10
    /\ writeback_reg.args = "X"
    /\ accumulator = 200
    /\ flags.less
    /\ flags.overflow
    /\ regs[1] = 44
    /\ regs[2] = 100
    /\ regs[3] = 0

\* C24: only ADD, ADDC, SUB, OR, XOR, AND, SHR and NOT change the flags or
\* the accumulator during a tick: a tick that executes any other operation
\* (NOOP, IMM, MOV, OUT, ROUT, INP, the branches, STORE, LOAD, PUSH, POP,
\* CALL, RET) leaves the four flags and the accumulator unchanged; a step
\* that is no tick leaves the flags unchanged, and changes the accumulator
\* only when it is a resolve_input that ends an input wait.
C24_FlagsChangedByAluOnly ==
    [][ /\ (ClockStep /\ decode_reg.operation \notin AluOps) =>
            /\ flags' = flags
            /\ accumulator' = accumulator
        /\ ticks' = ticks =>
            /\ flags' = flags
            /\ accumulator' /= accumulator =>
                  waiting_for_input /\ ~waiting_for_input'
      ]_vars

\* NOT R3 R0 / INP R3 after resolve_input(42): the flags are those the NOT
\* left, the accumulator is the input.
C24_Witness ==
    /\ instructions = InpProgram(<<Op2("NOT", "None", Reg(3), Reg(0))>>, 3, <<>>)
    /\ execute_reg.operation = "INP"
    /\ ~waiting_for_input
    /\ accumulator = 42
    /\ flags = [equals |-> TRUE, greater |-> FALSE, less |-> FALSE, overflow |-> FALSE]

\* A step that is neither a tick nor a load of another program: a call of
\* resolve_input or a blocked call of clock.
NoTickNoLoad ==
    /\ ticks' = ticks
    /\ instructions' = instructions
    /\ code' = code

\* C25: resolve_input(v) called while waiting_for_input is false changes
\* nothing; called while it is true it changes only the accumulator, to
\* v mod 256, and waiting_for_input, to false: pc, sp, the registers, the
\* flags, RAM, the ports and the latches are unchanged.
C25_ResolveInputFrame ==
    [][ NoTickNoLoad =>
          /\ ~waiting_for_input =>
                UNCHANGED <<pc, sp, fetch_reg, decode_reg, execute_reg, writeback_reg,
                            regs, next_regs, accumulator, flags, ports_out, ram,
                            waiting_for_input, input_register, errors, warnings,
                            panicked>>
          /\ waiting_for_input =>
                /\ UNCHANGED <<pc, sp, fetch_reg, decode_reg, execute_reg, writeback_reg,
                               regs, next_regs, flags, ports_out, ram, input_register,
                               errors, warnings, panicked>>
                /\ \/ waiting_for_input' /\ accumulator' = accumulator
                   \/ /\ ~waiting_for_input'
                      /\ \E v \in InputValues : accumulator' = v % 256
      ]_vars

\* IMM R1 5 / INP R3 after resolve_input(-1): the accumulator is 255, the
\* wait is over, and the tick of the INP is still the last one.
C25_Witness ==
    /\ instructions = InpProgram(<<Op2("IMM", "None", Reg(1), Imm(5))>>, 3, <<>>)
    /\ ticks = 4
    /\ execute_reg.operation = "INP"
    /\ ~waiting_for_input
    /\ accumulator = 255
    /\ regs[1] = 5
    /\ regs[3] = 0

\* The value the writer w of HazardWriters computes for R1 from the settled
\* registers (R1 == 3, R2 == 6, R3 == 12), RAM[3] == 12, the top of the stack
\* 12, the accumulator 0 and no flag set; INP writes the accumulator.
WrittenValue(w) ==
    CASE w.operation = "IMM" -> w.b.data
      [] w.operation = "MOV" -> ValueBeforeWriter(w.b.data)
      [] w.operation \in {"LOAD", "POP"} -> 12
      [] w.operation = "INP" -> accumulator
      [] OTHER ->
            AndFF(alu_result(w.operation,
                             IF w.args = "U" THEN 0 ELSE ValueBeforeWriter(w.a.data),
                             ValueBeforeWriter(w.b.data), [overflow |-> FALSE]))

\* The value register n holds once R1 holds v.
ValueWithR1(n, v) == IF n = 1 THEN v ELSE ValueBeforeWriter(n)

\* The accumulator an ALU reader r leaves when it reads v from R1.
ObservesInExecute(r, v) ==
    LET a_data == IF r.args = "U" \/ r.args = "X"
                  THEN accumulator
                  ELSE ValueWithR1(r.a.data, v)
        b_data == ValueWithR1(r.b.data, v)
    IN accumulator' = AndFF(alu_result(r.operation, a_data, b_data, flags))

\* The register, port or RAM cell a reader r of the writeback stage leaves
\* when it reads v from R1.
ObservesInWriteback(r, v) ==
    CASE r.operation = "MOV" -> regs'[r.a.data] = ValueWithR1(r.b.data, v)
      [] r.operation = "OUT" -> ports_out'[r.a.data] = ValueWithR1(r.b.data, v)
      [] r.operation = "ROUT" ->
            IF ValueWithR1(r.a.data, v) < 8
            THEN ports_out'[ValueWithR1(r.a.data, v)] = ValueWithR1(r.b.data, v)
            ELSE ports_out' = ports_out
      [] r.operation = "STORE" -> ram'[r.a.data] = ValueWithR1(r.b.data, v)
      [] r.operation = "PUSH" -> ram'[sp] = ValueWithR1(r.a.data, v)
      [] OTHER -> TRUE

\* C26: one intervening instruction is enough to remove the read-after-write
\* hazard: in w / g / r at addresses 10, 11 and 12, where w writes R1, g does
\* not write R1 and r reads R1, the value w wrote (other than the 3 that R1
\* held before) is in R1 at the end of tick 14, g leaves it there in tick 15,
\* and r observes it, in tick 15 when r reads in the execute stage and in
\* tick 16 when it reads in the writeback stage, for every writer and reader
\* of the hazard tables.
C26_OneGapRemovesHazard ==
    [][ (ClockStep /\ ticks' \in 14..16 /\ instructions \in GapHazardPrograms) =>
          LET w == instructions[11]
              r == instructions[13]
          IN /\ ticks' = 14 => regs'[1] = WrittenValue(w) /\ regs'[1] /= 3
             /\ ticks' = 15 =>
                   /\ regs'[1] = regs[1]
                   /\ is_alu_op(r.operation) => ObservesInExecute(r, regs[1])
             /\ ticks' = 16 =>
                   /\ regs[1] /= 3
                   /\ ObservesInWriteback(r, regs[1])
      ]_vars

\* IMM R1 5 / NOOP / ADD R2 R1 after the ADD executed: it added the 5.
C26_Witness ==
    /\ instructions = GapHazardProgram(Op2("IMM", "None", Reg(1), Imm(5)), NOOP,
                                       Op2("ADD", "None", Reg(2), Reg(1)))
    /\ ticks = 15
    /\ execute_reg.operation = "ADD"
    /\ accumulator = 11
    /\ regs[1] = 5

\* C27: stack effects happen in program order although RET pops in the
\* execute stage while PUSH, POP and CALL act in the writeback stage.  A RET
\* executed in the tick in which the PUSH Rr before it is written back
\* branches to the value of Rr and leaves sp as it was before the PUSH; a RET
\* that is the first instruction of a subroutine, executed two ticks after
\* its CALL, branches to the return address the CALL stored, the CALL's
\* address + 1, and leaves sp as it was before the CALL.  In IMM Rr v /
\* NOOP x 3 / (sp set to sp0) / PUSH Rr / RET the RET, at address p + 1,
\* executes in tick p + 4 with target v and sp == sp0.
C27_StackInProgramOrder ==
    [][ /\ (ClockStep /\ decode_reg.operation = "RET"
             /\ execute_reg.operation = "PUSH"
             /\ decode_reg.address = execute_reg.address + 1) =>
            /\ execute_reg'.a.data = read(regs, execute_reg.a.data)
            /\ sp' = sp
            /\ fetch_reg' = FetchedAt(read(regs, execute_reg.a.data))
        /\ (ClockStep /\ decode_reg.operation = "RET"
             /\ writeback_reg.operation = "CALL"
             /\ decode_reg.address = writeback_reg.a.data) =>
            /\ execute_reg'.a.data = (writeback_reg.address + 1) % 256
            /\ sp' = (sp + 1) % 16
            /\ ram[sp'] = (writeback_reg.address + 1) % 256
            /\ fetch_reg' = FetchedAt((writeback_reg.address + 1) % 256)
        /\ (ClockStep /\ instructions \in PushRetPrograms
             /\ ticks' = Len(instructions) + 2) =>
            /\ execute_reg'.operation = "RET"
            /\ execute_reg'.a.data = instructions[1].b.data
            /\ \E s \in PushRetSps :
                  /\ instructions = PushRetProgram(s, instructions[1].a.data,
                                                   instructions[1].b.data)
                  /\ sp' = s
            /\ pc' = PcAfter(instructions[1].b.data)
      ]_vars

\* PUSH R1 / RET with R1 == 9 and sp == 0 before the PUSH: the PUSH wrapped
\* sp to 15, the RET wrapped it back and branches to 9.
C27_Witness ==
    /\ instructions = PushRetProgram(0, 1, 9)
    /\ execute_reg.operation = "RET"
    /\ writeback_reg.operation = "PUSH"
    /\ execute_reg.a.data = 9
    /\ ram[0] = 9
    /\ sp = 0
    /\ pc = 10

\* The flags and the accumulator the arithmetic/logical operation r leaves
\* when it consumes its register operands from the register file rf.
ConsumesFrom(r, rf) ==
    AluOutcome(r.operation,
               IF r.args = "U" \/ r.args = "X" THEN accumulator ELSE read(rf, r.a.data),
               read(rf, r.b.data), flags.overflow)

\* The instruction about to execute is an arithmetic/logical operation that
\* follows, in the stream, the instruction about to be written back, and the
\* parser emitted no RAW hazard warning for it.
UnwarnedAdjacentPair ==
    /\ ClockStep /\ ~WritebackPanics
    /\ is_alu_op(decode_reg.operation)
    /\ execute_reg /= Instruction_none
    /\ decode_reg.address = execute_reg.address + 1
    /\ RawWarningsAt(decode_reg.source_line) = {}

\* C28: the hazard check misses no stale read in straight-line code: when
\* the parser emits no RAW hazard warning for two adjacent instructions,
\* every register value the second consumes (operand A of SHR/NOT for the
\* flag comparison and operand B read as a register whatever its operand
\* type included) is the value after the first instruction's write, that is,
\* the value of the register file the first instruction's tick commits.
C28_NoUnwarnedStaleRead ==
    [][ UnwarnedAdjacentPair => ConsumesFrom(decode_reg, regs') ]_vars

\* What the emulator does instead: the second instruction computes from the
\* register file as it was before the first instruction's write.
C28_ExecuteReadsCommittedFile ==
    [][ (UnwarnedAdjacentPair /\ ~panicked') => ConsumesFrom(decode_reg, regs) ]_vars

\* IMM R1 5 / SHR R1 R2 with R1 == 3 and R2 == 6 before: no warning.
C28_UnwarnedPairExecuted ==
    /\ instructions = HazardProgram(Op2("MOV", "None", Reg(1), Reg(3)),
                                    Op2("SHR", "None", Reg(1), Reg(2)))
    /\ ticks = 14
    /\ warnings = <<>>
    /\ regs[1] = 12
    /\ flags.less

\* The number of the flags equals, greater and less that are set in fl.
ComparisonFlagsSet(fl) ==
    (IF fl.equals THEN 1 ELSE 0) + (IF fl.greater THEN 1 ELSE 0)
        + (IF fl.less THEN 1 ELSE 0)

\* The tick executes an arithmetic/logical operation.
ExecutesAluOp == ClockStep /\ ~WritebackPanics /\ is_alu_op(decode_reg.operation)

\* C29: at most one of the flags equals, greater and less is true in every
\* state; all three are false from the creation of the ALU (construction or
\* load_program) until the first arithmetic/logical operation is executed,
\* and exactly one is true in every state after that: the flags start with
\* none set, a load sets none, a tick that executes an arithmetic/logical
\* operation leaves exactly one set, and every other step keeps the number
\* of flags set.
C29_ComparisonFlags ==
    /\ ComparisonFlagsSet(flags) = 0
    /\ [][ /\ ComparisonFlagsSet(flags') <= 1
           /\ ExecutesAluOp => ComparisonFlagsSet(flags') = 1
           /\ ticks' = 0 => ComparisonFlagsSet(flags') = 0
           /\ (ticks' /= 0 /\ ~ExecutesAluOp) =>
                 ComparisonFlagsSet(flags') = ComparisonFlagsSet(flags)
         ]_vars

\* IMM R1 5 / IMM R2 7 / NOOP x 3 / SUB R1 R2 / BIL 9 ...: the SUB set less,
\* and the instructions executed after it left it alone.
C29_Witness ==
    /\ instructions = BranchScenarioProgram("BIL", 5, 7)
    /\ ticks = 12
    /\ flags.less
    /\ ComparisonFlagsSet(flags) = 1
    /\ regs[1] = 254

\* C30: for every source text, each instruction of the emitted stream
\* carries an address equal to its own index in the stream, also when other
\* lines failed to parse; the instruction in a latch is the instruction of
\* the stream at its address (for a RET, up to the target patched into
\* operand A), and the return address a CALL stores, address + 1 as a byte,
\* is the index of the instruction that follows the CALL in the stream.
C30_AddressIsIndex ==
    /\ \A k \in 1..Len(instructions) : instructions[k].address = k - 1
    /\ [][ (ClockStep /\ execute_reg.operation = "CALL") =>
              /\ execute_reg.address + 1 \in 1..Len(instructions)
              /\ instructions[execute_reg.address + 1] = execute_reg
              /\ ram'[sp] = (execute_reg.address + 1) % 256
         ]_vars

\* FOO / CALL 2 / IMM R1 9 / RET: line 1 failed, the CALL of line 2 is at
\* address 0 and stored 1, the index of IMM R1 9.
C30_Witness ==
    /\ Len(errors) = 1
    /\ Len(instructions) = 3
    /\ writeback_reg.operation = "CALL"
    /\ writeback_reg.source_line = 2
    /\ writeback_reg.address = 0
    /\ ram[15] = 1
    /\ instructions[2].operation = "IMM"

====
